---- MODULE Spec2Model ----
(***************************************************************************)
(* TimeWallet: the goal life cycle (GoalsList / GoalCard, both GoalCard    *)
(* implementations found in the repository), the streak / badge rule       *)
(* engine (useStreaks), the challenges (useChallenges), the credits and    *)
(* the profile page, the notifications (useNotifications), the focus timer *)
(* (FocusTimer), the session-protected pages and the wallet balance        *)
(* (WalletBalance), over a model of the remote table store.                *)
(*                                                                         *)
(* The remote store is a set of tables; every remote write either applies  *)
(* or returns an error and applies nothing.  A handler is one action: its  *)
(* writes are applied in the order the code awaits them, and the outcome   *)
(* of each write is an input of the action.                                *)
(***************************************************************************)
EXTENDS Integers, Sequences, FiniteSets, TLC

\* ---------------------------------------------------------------- bounds

\* User actions (clicks) explored in the goal specification.
MaxOps == 5
\* The deadline of every goal, in clock ticks; the clock starts at 0.
Deadline == 1
\* Clock ticks explored after the deadline.
ClockSpan == 1
\* Clock ticks in a calendar day (the code counts 1000 * 60 * 60 * 24 ms).
TicksPerDay == 2
\* The last calendar day the streak specification explores; it starts on day 1.
MaxDay == 3
\* Work sessions the focus timer completes.
MaxSessions == 3
\* Rows of user_challenges explored.
MaxUserChallenges == 2
\* Notifications ever created.
MaxNotifications == 2
\* Updates of the user's profile balance while WalletBalance is mounted.
MaxProfileUpdates == 3

\* ------------------------------------------------------------- universes

Sessions == {"s1", "s2"}
Goals == {"g1"}
Tasks == {"t1", "t2"}
CardVersions == {"v1", "v2"}

\* time_allocated of a goal row, in seconds (CreateGoalDialog: hours * 3600).
TimeAllocated(g) == IF g = "g1" THEN 3600 ELSE 7200

NoTasks == [t \in {} |-> FALSE]
DeletedGoal == [status |-> "deleted", last_progress_update |-> 0]

VARIABLES
    now,             \* the clock (new Date()), in ticks
    card,            \* which GoalCard implementation is mounted
    dbGoals,         \* table goals: g -> [status, last_progress_update]
    dbTasks,         \* table tasks: g -> (task -> completed), empty once deleted
    dbBalance,       \* profiles.balance of the user
    dbTransactions,  \* table transactions, in insertion order
    goals,           \* GoalsList state per session: g -> status of the fetched row
    goalStatus,      \* GoalCard (second version) state per session and goal
    tasks,           \* GoalCard state per session and goal: task -> completed
    ops,             \* user actions so far
    ev,              \* the handler run in the last step: its inputs, the store before it
    dbStreak,        \* table user_streaks: the user's row, or NoRow
    dbBadges,        \* table user_badges: the user's rows, in insertion order
    streak,          \* useStreaks state: the loaded row, or NoRow for null
    badges,          \* useStreaks state: the loaded badge list, newest first
    loading,         \* useStreaks state
    clockSetBack,    \* the device clock has been set back
    sev,             \* the useStreaks call of the last step: its inputs, the state before it
    awarded,         \* history: per badge type, the inserts of this hook that succeeded
    streakRows,      \* table user_streaks: how many rows the user has
    dbUserChallenges,\* table user_challenges: the user's rows, in insertion order (id = position)
    challenges,      \* useChallenges state per session: the ids of the loaded catalog rows
    userChallenges,  \* useChallenges state per session: the loaded rows, newest first
    cev,             \* the useChallenges call of the last step: its inputs, the state before it
    pc,              \* per session: where its completeGoalEarly call stands
    credited,        \* history: per session, its increment_balance call succeeded
    dbUsername,      \* profiles.username of the user (the fields handleSave writes)
    profile,         \* ProfilePage state: the fetched row, or NoProfile for null
    form,            \* ProfilePage state: the edit form
    saveSaw,         \* history: the balance the page held and the stored one at the last save
    dbNotifications, \* table notifications: id -> "absent", "unread", "read" or "deleted"
    notifications,   \* useNotifications state: the loaded rows, newest first
    unreadCount,     \* useNotifications state
    nev,             \* the useNotifications call of the last step: its inputs, the state before it
    component,       \* the component whose handlers the behaviour exercises
    settings,        \* FocusTimer state: the four durations / counts of the settings panel
    timeLeft,        \* FocusTimer state, in seconds
    isRunning,       \* FocusTimer state
    isWorkSession,   \* FocusTimer state
    completedSessions, \* FocusTimer state
    showSettings,    \* FocusTimer state
    closure,         \* the render whose handleSessionEnd the running interval calls
    pending,         \* the handleSessionEnd call waiting for its insert to return
    dbFocusSessions, \* table focus_sessions: the user's rows, in insertion order
    tev,             \* the FocusTimer step last taken: the state before it
    authSession,     \* supabase.auth: the stored session, or NoSession
    route,           \* the router: the page mounted, or AuthView
    session,         \* the mounted page's state (session, userId in Focus), or NoSession
    checking,        \* the mounted page's getSession call has not resolved
    initialPending,  \* the subscription of the mounted page has not had INITIAL_SESSION
    aev,             \* the session check or event the mounted page handled last
    balanceShown,    \* WalletBalance state: balance
    walletLoading,   \* WalletBalance state: loading
    fetchBalance,    \* the fetchBalance call: issued, read (response in flight) or done
    channel          \* profile-changes: the UPDATE payloads in flight, oldest first

goalVars == <<card, dbGoals, dbTasks, dbBalance, dbTransactions,
              goals, goalStatus, tasks, ops, ev>>

streakVars == <<dbStreak, dbBadges, streak, badges, loading, clockSetBack, sev, awarded,
                streakRows>>

challengeVars == <<dbUserChallenges, challenges, userChallenges, cev>>

creditVars == <<pc, credited, dbUsername, profile, form, saveSaw>>

notificationVars == <<dbNotifications, notifications, unreadCount, nev>>

timerVars == <<settings, timeLeft, isRunning, isWorkSession, completedSessions,
               showSettings, closure, pending, dbFocusSessions, tev>>

\* The components the specifications of the goals, streaks, challenges and
\* notifications do not exercise.
authVars == <<authSession, route, session, checking, initialPending, aev>>

walletVars == <<balanceShown, walletLoading, fetchBalance, channel>>

elsewhere == <<timerVars, authVars, walletVars>>

\* What the handlers of each component leave alone.

goalFrame == <<streakVars, challengeVars, creditVars, notificationVars, component, elsewhere>>
streakFrame == <<goalVars, challengeVars, creditVars, notificationVars, component, elsewhere>>
creditFrame == <<streakVars, challengeVars, notificationVars, component, elsewhere>>
notificationFrame == <<now, goalVars, streakVars, challengeVars, creditVars, component,
                       elsewhere>>
timerFrame == <<now, goalVars, streakVars, challengeVars, creditVars, notificationVars,
                component, authVars, walletVars>>
authFrame == <<now, goalVars, streakVars, challengeVars, creditVars, notificationVars,
               component, timerVars, walletVars>>
walletFrame == <<now, card, dbGoals, dbTasks, dbTransactions, goals, goalStatus, tasks, ops, ev,
                 streakVars, challengeVars, creditVars, notificationVars, component,
                 timerVars, authVars>>

vars == <<now, goalVars, streakVars, challengeVars, creditVars, notificationVars, component,
          elsewhere>>

\* ------------------------------------------------------- the remote store

\* update(goals, id = g, patch): no row matches once the goal is deleted.
UpdateGoal(rows, g, field, value) ==
    IF rows[g].status = "deleted" THEN rows
    ELSE IF field = "status" THEN [rows EXCEPT ![g].status = value]
    ELSE [rows EXCEPT ![g].last_progress_update = value]

\* update(tasks, id = t, {completed}): no row matches once the task is deleted.
UpdateTask(rows, g, t, value) ==
    IF t \in DOMAIN rows[g] THEN [rows EXCEPT ![g][t] = value] ELSE rows

\* The server procedure increment_balance: balance := balance + amount, atomically.
increment_balance(balance, amount) == balance + amount

CreditTransaction(g) ==
    [goal_id |-> g, type |-> "credit", amount |-> TimeAllocated(g)]

\* One remote write as a handler issued it, with its outcome.
Write(table, what, ok) == [table |-> table, what |-> what, ok |-> ok]

\* ------------------------------------------------------------- GoalCard

\* The store and the card's goalStatus as a handler leaves them.
Outcome(gs, bal, txs, st) ==
    [goals |-> gs, balance |-> bal, transactions |-> txs, goalStatus |-> st]

\* First version of completeGoalEarly: status, then balance, then transaction.
completeGoalEarlyV1(gs, bal, txs, st, g, okStatus, okRpc, okTx) ==
    IF ~okStatus THEN Outcome(gs, bal, txs, st)
    ELSE IF ~okRpc THEN Outcome(UpdateGoal(gs, g, "status", "completed"), bal, txs, st)
    ELSE Outcome(UpdateGoal(gs, g, "status", "completed"),
                 increment_balance(bal, TimeAllocated(g)),
                 IF okTx THEN Append(txs, CreditTransaction(g)) ELSE txs,
                 st)

\* Second version without the rollback of the optimistic goalStatus.
completeGoalEarlyV2KeepingOptimistic(gs, bal, txs, st, g, okStatus, okRpc) ==
    IF ~okStatus THEN Outcome(gs, bal, txs, "completed")
    ELSE Outcome(UpdateGoal(gs, g, "status", "completed"),
                 IF okRpc THEN increment_balance(bal, TimeAllocated(g)) ELSE bal,
                 txs,
                 "completed")

\* Second version: optimistic goalStatus with rollback, status, then balance.
completeGoalEarlyV2(gs, bal, txs, st, g, okStatus, okRpc) ==
    IF ~okStatus THEN Outcome(gs, bal, txs, "ongoing")
    ELSE Outcome(UpdateGoal(gs, g, "status", "completed"),
                 IF okRpc THEN increment_balance(bal, TimeAllocated(g)) ELSE bal,
                 txs,
                 "completed")

markGoalFailed(gs, bal, txs, st, g, okStatus) ==
    Outcome(IF okStatus THEN UpdateGoal(gs, g, "status", "failed") ELSE gs,
            bal, txs, st)

allCompleted(updatedTasks) == \A t \in DOMAIN updatedTasks : updatedTasks[t]

beforeDeadline(t) == Deadline > t
isOverdueNow(t) == Deadline < t

\* What toggleTask does after the task write succeeded and tasks were updated.
AfterToggleV1(gs, bal, txs, st, prop, updatedTasks, g, okStatus, okRpc, okTx) ==
    IF allCompleted(updatedTasks) /\ beforeDeadline(now) /\ prop = "ongoing"
    THEN completeGoalEarlyV1(gs, bal, txs, st, g, okStatus, okRpc, okTx)
    ELSE Outcome(gs, bal, txs, st)

AfterToggleV2(gs, bal, txs, st, prop, updatedTasks, g, okStatus, okRpc, okTx) ==
    IF allCompleted(updatedTasks) /\ st = "ongoing"
    THEN IF isOverdueNow(now)
         THEN markGoalFailed(gs, bal, txs, st, g, okStatus)
         ELSE completeGoalEarlyV2(gs, bal, txs, st, g, okStatus, okRpc)
    ELSE Outcome(gs, bal, txs, st)

AfterToggle(gs, bal, txs, st, prop, updatedTasks, g, okStatus, okRpc, okTx) ==
    IF card = "v1"
    THEN AfterToggleV1(gs, bal, txs, st, prop, updatedTasks, g, okStatus, okRpc, okTx)
    ELSE AfterToggleV2(gs, bal, txs, st, prop, updatedTasks, g, okStatus, okRpc, okTx)

\* completeGoalEarly crediting the balance before it marks the goal completed.
completeGoalEarlyWritesCreditFirst(okStatus, okRpc, okTx) ==
    <<Write("rpc", "increment_balance", okRpc)>>
    \o (IF okRpc THEN <<Write("goals", "completed", okStatus)>> ELSE <<>>)
    \o (IF okStatus /\ okRpc /\ card = "v1"
        THEN <<Write("transactions", "insert", okTx)>> ELSE <<>>)

\* The writes of completeGoalEarly, in the order it issues them.
completeGoalEarlyWrites(okStatus, okRpc, okTx) ==
    <<Write("goals", "completed", okStatus)>>
    \o (IF okStatus THEN <<Write("rpc", "increment_balance", okRpc)>> ELSE <<>>)
    \o (IF okStatus /\ okRpc /\ card = "v1"
        THEN <<Write("transactions", "insert", okTx)>> ELSE <<>>)

\* The writes of toggleTask, in the order it issues them.
toggleTaskWrites(st, prop, updatedTasks, okTask, okStatus, okRpc, okTx) ==
    IF ~okTask THEN <<Write("tasks", "update", FALSE)>>
    ELSE <<Write("tasks", "update", TRUE), Write("goals", "last_progress_update", TRUE)>>
         \o (IF card = "v1"
             THEN IF allCompleted(updatedTasks) /\ beforeDeadline(now) /\ prop = "ongoing"
                  THEN completeGoalEarlyWrites(okStatus, okRpc, okTx) ELSE <<>>
             ELSE IF allCompleted(updatedTasks) /\ st = "ongoing"
                  THEN IF isOverdueNow(now)
                       THEN <<Write("goals", "failed", okStatus)>>
                       ELSE completeGoalEarlyWrites(okStatus, okRpc, okTx)
                  ELSE <<>>)

\* No handler ran in the last step.
NoEvent ==
    [op |-> "none", s |-> "s1", g |-> "g1", ok |-> TRUE, at |-> 0,
     preStatus |-> "ongoing", preBalance |-> 0, preTransactions |-> <<>>,
     preTasks |-> NoTasks, preGoalStatus |-> "ongoing", writes |-> <<>>]

Event(op, s, g, ok, writes) ==
    [op |-> op, s |-> s, g |-> g, ok |-> ok, at |-> now,
     preStatus |-> dbGoals[g].status, preBalance |-> dbBalance,
     preTransactions |-> dbTransactions,
     preTasks |-> tasks[s][g], preGoalStatus |-> goalStatus[s][g], writes |-> writes]

\* toggleTask(taskId, completed), from a checkbox the card renders.
toggleTask(s, g, t, okTask, okStatus, okRpc, okTx) ==
    /\ ops < MaxOps
    /\ goals[s][g] = "ongoing"
    /\ t \in DOMAIN tasks[s][g]
    /\ ops' = ops + 1
    /\ ev' = Event("toggleTask", s, g, okTask /\ okStatus /\ okRpc /\ okTx,
                   toggleTaskWrites(goalStatus[s][g], goals[s][g],
                                    [tasks[s][g] EXCEPT ![t] = ~tasks[s][g][t]],
                                    okTask, okStatus, okRpc, okTx))
    /\ UNCHANGED <<now, card, goals>>
    /\ UNCHANGED goalFrame
    /\ IF ~okTask
       THEN UNCHANGED <<dbGoals, dbTasks, dbBalance, dbTransactions, goalStatus, tasks>>
       ELSE LET completed == tasks[s][g][t]
                updatedTasks == [tasks[s][g] EXCEPT ![t] = ~completed]
                progressed == UpdateGoal(dbGoals, g, "last_progress_update", now)
                out == AfterToggle(progressed, dbBalance, dbTransactions,
                                   goalStatus[s][g], goals[s][g], updatedTasks,
                                   g, okStatus, okRpc, okTx)
            IN  /\ dbTasks' = UpdateTask(dbTasks, g, t, ~completed)
                /\ tasks' = [tasks EXCEPT ![s][g] = updatedTasks]
                /\ dbGoals' = out.goals
                /\ dbBalance' = out.balance
                /\ dbTransactions' = out.transactions
                /\ goalStatus' = [goalStatus EXCEPT ![s][g] = out.goalStatus]

\* deleteGoal giving the credit back (the refund the code's comment rules out).
deleteGoalRefunding(gs, ts, bal, txs, g, okTasks, okGoal) ==
    IF ~okTasks THEN [goals |-> gs, tasks |-> ts, balance |-> bal, transactions |-> txs]
    ELSE [goals |-> IF okGoal THEN [gs EXCEPT ![g] = DeletedGoal] ELSE gs,
          tasks |-> [ts EXCEPT ![g] = NoTasks],
          balance |-> IF gs[g].status = "completed" THEN bal - TimeAllocated(g) ELSE bal,
          transactions |-> txs]

\* deleteGoal removing the goal's ledger rows along with its tasks.
deleteGoalPurgingLedger(gs, ts, bal, txs, g, okTasks, okGoal) ==
    IF ~okTasks THEN [goals |-> gs, tasks |-> ts, balance |-> bal, transactions |-> txs]
    ELSE [goals |-> IF okGoal THEN [gs EXCEPT ![g] = DeletedGoal] ELSE gs,
          tasks |-> [ts EXCEPT ![g] = NoTasks],
          balance |-> bal,
          transactions |-> SelectSeq(txs, LAMBDA tx : tx.goal_id # g)]

\* deleteGoal going on to the goal row after a failed task deletion.
deleteGoalIgnoringTaskError(gs, ts, bal, txs, g, okTasks, okGoal) ==
    [goals |-> IF okGoal THEN [gs EXCEPT ![g] = DeletedGoal] ELSE gs,
     tasks |-> IF okTasks THEN [ts EXCEPT ![g] = NoTasks] ELSE ts,
     balance |-> bal,
     transactions |-> txs]

\* The store as deleteGoal leaves it: tasks first, then the goal row.
deleteGoalOutcome(gs, ts, bal, txs, g, okTasks, okGoal) ==
    IF ~okTasks THEN [goals |-> gs, tasks |-> ts, balance |-> bal, transactions |-> txs]
    ELSE [goals |-> IF okGoal THEN [gs EXCEPT ![g] = DeletedGoal] ELSE gs,
          tasks |-> [ts EXCEPT ![g] = NoTasks],
          balance |-> bal,
          transactions |-> txs]

\* deleteGoal, from the dialog of a rendered card (ongoing and completed tabs).
deleteGoal(s, g, okTasks, okGoal) ==
    /\ ops < MaxOps
    /\ goals[s][g] \in {"ongoing", "completed"}
    /\ ops' = ops + 1
    /\ ev' = Event("deleteGoal", s, g, okTasks /\ okGoal,
                   <<Write("tasks", "delete", okTasks)>>
                   \o (IF okTasks THEN <<Write("goals", "delete", okGoal)>> ELSE <<>>))
    /\ LET out == deleteGoalOutcome(dbGoals, dbTasks, dbBalance, dbTransactions,
                                    g, okTasks, okGoal)
       IN  /\ dbGoals' = out.goals
           /\ dbTasks' = out.tasks
           /\ dbBalance' = out.balance
           /\ dbTransactions' = out.transactions
    /\ UNCHANGED <<now, card, goals, goalStatus, tasks>>
    /\ UNCHANGED goalFrame

\* GoalsList.fetchGoals (on mount and on every goals change event): the rows
\* replace the list; a card whose goal moved to another tab is mounted anew
\* and fetches its tasks, a card whose goal left the list is unmounted.
fetchGoals(s) ==
    /\ \E g \in Goals : goals[s][g] # dbGoals[g].status
    /\ goals' = [goals EXCEPT ![s] = [g \in Goals |-> dbGoals[g].status]]
    /\ goalStatus' = [goalStatus EXCEPT ![s] =
          [g \in Goals |-> IF goals[s][g] # dbGoals[g].status
                           THEN dbGoals[g].status ELSE goalStatus[s][g]]]
    /\ tasks' = [tasks EXCEPT ![s] =
          [g \in Goals |-> IF goals[s][g] # dbGoals[g].status
                           THEN IF dbGoals[g].status \in {"ongoing", "completed"}
                                THEN dbTasks[g] ELSE NoTasks
                           ELSE tasks[s][g]]]
    /\ ev' = NoEvent
    /\ UNCHANGED <<now, card, dbGoals, dbTasks, dbBalance, dbTransactions, ops>>
    /\ UNCHANGED goalFrame

Tick ==
    /\ now < Deadline + ClockSpan
    /\ now' = now + 1
    /\ ev' = NoEvent
    /\ UNCHANGED <<card, dbGoals, dbTasks, dbBalance, dbTransactions,
                   goals, goalStatus, tasks, ops>>
    /\ UNCHANGED goalFrame

\* ------------------------------------- concurrent credits, ProfilePage

\* The goals of the credit specification: each session completes its own.
CreditGoals == {"g1", "g2"}
CreditGoalOf(s) == IF s = "s1" THEN "g1" ELSE "g2"

\* completeGoalEarly, first await: the status update (the second card version
\* sets goalStatus beforehand and rolls it back on error).
completeStatus(s, okStatus) ==
    /\ pc[s] = "status"
    /\ dbGoals' = IF okStatus
                  THEN UpdateGoal(dbGoals, CreditGoalOf(s), "status", "completed")
                  ELSE dbGoals
    /\ goalStatus' = IF card = "v2"
                     THEN [goalStatus EXCEPT ![s][CreditGoalOf(s)] =
                              IF okStatus THEN "completed" ELSE "ongoing"]
                     ELSE goalStatus
    /\ pc' = [pc EXCEPT ![s] = IF okStatus THEN "rpc" ELSE "done"]
    /\ UNCHANGED <<now, card, dbTasks, dbBalance, dbTransactions, goals, tasks, ops, ev>>
    /\ UNCHANGED <<credited, dbUsername, profile, form, saveSaw>>
    /\ UNCHANGED creditFrame

\* completeGoalEarly, second await: rpc increment_balance.
completeRpc(s, okRpc) ==
    /\ pc[s] = "rpc"
    /\ dbBalance' = IF okRpc
                    THEN increment_balance(dbBalance, TimeAllocated(CreditGoalOf(s)))
                    ELSE dbBalance
    /\ credited' = [credited EXCEPT ![s] = okRpc]
    /\ pc' = [pc EXCEPT ![s] = IF okRpc /\ card = "v1" THEN "tx" ELSE "done"]
    /\ UNCHANGED <<now, card, dbGoals, dbTasks, dbTransactions, goals, goalStatus, tasks,
                   ops, ev>>
    /\ UNCHANGED <<dbUsername, profile, form, saveSaw>>
    /\ UNCHANGED creditFrame

\* completeGoalEarly (first version), third await: the transaction insert.
completeTx(s, okTx) ==
    /\ pc[s] = "tx"
    /\ dbTransactions' = IF okTx
                         THEN Append(dbTransactions, CreditTransaction(CreditGoalOf(s)))
                         ELSE dbTransactions
    /\ pc' = [pc EXCEPT ![s] = "done"]
    /\ UNCHANGED <<now, card, dbGoals, dbTasks, dbBalance, goals, goalStatus, tasks, ops, ev>>
    /\ UNCHANGED <<credited, dbUsername, profile, form, saveSaw>>
    /\ UNCHANGED creditFrame

NoProfile == [username |-> "", balance |-> 0 - 1]
NoSave == [held |-> 0 - 1, stored |-> 0 - 1]

\* What the user may type into the username field.
Usernames == {"", " ", "ann"}
\* String.prototype.trim
Trim(u) == IF u = " " THEN "" ELSE u

\* fetchProfile: select("*") of the user's row into profile and form.
fetchProfile(okSelect) ==
    /\ profile' = IF okSelect THEN [username |-> dbUsername, balance |-> dbBalance]
                  ELSE profile
    /\ form' = IF okSelect THEN [username |-> dbUsername] ELSE form
    /\ UNCHANGED <<now, goalVars, pc, credited, dbUsername, saveSaw>>
    /\ UNCHANGED creditFrame

\* updateField("username", value)
updateField(value) ==
    /\ profile # NoProfile
    /\ form' = [form EXCEPT !.username = value]
    /\ UNCHANGED <<now, goalVars, pc, credited, dbUsername, profile, saveSaw>>
    /\ UNCHANGED creditFrame

\* handleSave writing back the whole fetched row, balance included.
handleSavePayloadWholeRow(f, p) == [username |-> Trim(f.username), balance |-> p.balance]

\* The payload of handleSave: the form's fields (username standing for
\* username, education_standard, gender, age and interested_subjects).
handleSavePayload(f, p) == [username |-> Trim(f.username)]

\* handleSave: validate, update the row, refresh on success.
handleSave(okUpdate, okSelect) ==
    /\ profile # NoProfile
    /\ UNCHANGED <<now, card, dbGoals, dbTasks, dbTransactions, goals, goalStatus, tasks,
                   ops, ev, pc, credited>>
    /\ UNCHANGED creditFrame
    /\ IF Trim(form.username) = ""
       THEN /\ okUpdate /\ okSelect
            /\ UNCHANGED <<dbBalance, dbUsername, profile, form, saveSaw>>
       ELSE IF ~okUpdate
       THEN /\ okSelect
            /\ UNCHANGED <<dbBalance, dbUsername, profile, form, saveSaw>>
       ELSE LET payload == handleSavePayload(form, profile)
                balance == IF "balance" \in DOMAIN payload THEN payload.balance
                           ELSE dbBalance
            IN  /\ dbUsername' = payload.username
                /\ dbBalance' = balance
                /\ saveSaw' = [held |-> profile.balance, stored |-> dbBalance]
                /\ profile' = IF okSelect
                              THEN [username |-> payload.username, balance |-> balance]
                              ELSE profile
                /\ form' = IF okSelect THEN [username |-> payload.username] ELSE form

\* No completion in flight, the profile page not loaded.
CreditIdle ==
    /\ pc = [s \in Sessions |-> "idle"]
    /\ credited = [s \in Sessions |-> FALSE]
    /\ dbUsername = "sam"
    /\ profile = NoProfile
    /\ form = [username |-> ""]
    /\ saveSaw = NoSave

\* ------------------------------------------------------------ useStreaks

NoDate == 0 - 1
NoRow == [current_streak |-> 0 - 1, longest_streak |-> 0 - 1,
          last_streak_date |-> NoDate, total_goals_completed |-> 0 - 1]

StreakRow(c, l, d, n) ==
    [current_streak |-> c, longest_streak |-> l,
     last_streak_date |-> d, total_goals_completed |-> n]

\* insert({ user_id }): the row with the table's defaults.
DefaultStreakRow == StreakRow(0, 0, NoDate, 0)

\* new Date().toISOString().split("T")[0]: the UTC calendar day of an instant.
DateOf(t) == t \div TicksPerDay
\* new Date("YYYY-MM-DD").getTime(): UTC midnight of a calendar day.
DateTime(d) == d * TicksPerDay
\* Math.floor((todayObj.getTime() - lastDateObj.getTime()) / (1000 * 60 * 60 * 24))
diffDays(today, lastDate) == (DateTime(today) - DateTime(lastDate)) \div TicksPerDay

Max(a, b) == IF a >= b THEN a ELSE b

\* updateStreak without the same-day return.
newStreakNoEarlyReturn(st, today) ==
    LET lastDate == st.last_streak_date
        current == IF lastDate = NoDate THEN 1
                   ELSE IF diffDays(today, lastDate) = 1 THEN st.current_streak + 1
                   ELSE 1
    IN  [early |-> FALSE,
         current_streak |-> current,
         longest_streak |-> Max(st.longest_streak, current)]

\* updateStreak that never raises longest_streak.
newStreakStaleLongest(st, today) ==
    LET lastDate == st.last_streak_date
        current == IF lastDate = NoDate THEN 1
                   ELSE IF diffDays(today, lastDate) = 1 THEN st.current_streak + 1
                   ELSE 1
    IN  [early |-> lastDate # NoDate /\ diffDays(today, lastDate) = 0,
         current_streak |-> current,
         longest_streak |-> st.longest_streak]

\* updateStreak that continues the chain over a gap.
newStreakIgnoringGap(st, today) ==
    LET lastDate == st.last_streak_date
        current == IF lastDate = NoDate THEN 1
                   ELSE IF diffDays(today, lastDate) >= 1 THEN st.current_streak + 1
                   ELSE 1
    IN  [early |-> lastDate # NoDate /\ diffDays(today, lastDate) = 0,
         current_streak |-> current,
         longest_streak |-> Max(st.longest_streak, current)]

\* updateStreak taking the new current streak for the longest one.
newStreakForgettingLongest(st, today) ==
    LET lastDate == st.last_streak_date
        current == IF lastDate = NoDate THEN 1
                   ELSE IF diffDays(today, lastDate) = 1 THEN st.current_streak + 1
                   ELSE 1
    IN  [early |-> lastDate # NoDate /\ diffDays(today, lastDate) = 0,
         current_streak |-> current,
         longest_streak |-> current]

\* updateStreak up to its write: whether it returns early, and the new streaks.
newStreak(st, today) ==
    LET lastDate == st.last_streak_date
        current == IF lastDate = NoDate THEN 1
                   ELSE IF diffDays(today, lastDate) = 1 THEN st.current_streak + 1
                   ELSE 1
    IN  [early |-> lastDate # NoDate /\ diffDays(today, lastDate) = 0,
         current_streak |-> current,
         longest_streak |-> Max(st.longest_streak, current)]

\* The rows of checkForBadges, in the order of its tests.
BadgeTable ==
    << [metric |-> "streak", threshold |-> 7, type |-> "streak_7", name |-> "Week Warrior"],
       [metric |-> "streak", threshold |-> 30, type |-> "streak_30", name |-> "Monthly Master"],
       [metric |-> "goals", threshold |-> 10, type |-> "goals_10", name |-> "Goal Getter"],
       [metric |-> "goals", threshold |-> 50, type |-> "goals_50", name |-> "Achievement Hunter"],
       [metric |-> "goals", threshold |-> 100, type |-> "goals_100", name |-> "Century Champion"] >>

BadgeTypes == {BadgeTable[i].type : i \in DOMAIN BadgeTable}

Badge(row) == [badge_type |-> row.type, badge_name |-> row.name]

TypesOf(list) == {list[i].badge_type : i \in DOMAIN list}

RECURSIVE Reverse(_)
Reverse(q) == IF q = <<>> THEN <<>> ELSE Append(Reverse(Tail(q)), Head(q))

\* checkForBadges with strict thresholds (> for >=).
badgesToAwardStrict(currentStreak, totalGoals, loaded) ==
    LET met(row) ==
            /\ (IF row.metric = "streak" THEN currentStreak ELSE totalGoals) > row.threshold
            /\ row.type \notin TypesOf(loaded)
        chosen == SelectSeq(BadgeTable, met)
    IN  [i \in DOMAIN chosen |-> Badge(chosen[i])]

\* checkForBadges without the look-up in the loaded list.
badgesToAwardUnchecked(currentStreak, totalGoals, loaded) ==
    LET met(row) ==
            (IF row.metric = "streak" THEN currentStreak ELSE totalGoals) >= row.threshold
        chosen == SelectSeq(BadgeTable, met)
    IN  [i \in DOMAIN chosen |-> Badge(chosen[i])]

\* badgesToAward of checkForBadges(currentStreak, totalGoals) over the loaded list.
badgesToAward(currentStreak, totalGoals, loaded) ==
    LET met(row) ==
            /\ (IF row.metric = "streak" THEN currentStreak ELSE totalGoals) >= row.threshold
            /\ row.type \notin TypesOf(loaded)
        chosen == SelectSeq(BadgeTable, met)
    IN  [i \in DOMAIN chosen |-> Badge(chosen[i])]

\* The inserts of checkForBadges that succeeded, in the order they were issued.
Inserted(toAward, failed) ==
    LET good(b) == b.badge_type \notin failed IN SelectSeq(toAward, good)

\* No call ran in the last step.
NoStreakEvent ==
    [op |-> "none", today |-> 0, writes |-> <<>>, preDb |-> NoRow,
     preDbBadges |-> <<>>, pre |-> NoRow, preBadges |-> <<>>]

StreakEvent(op, today, writes) ==
    [op |-> op, today |-> today, writes |-> writes,
     preDb |-> dbStreak, preDbBadges |-> dbBadges,
     pre |-> streak, preBadges |-> badges]

\* fetchStreakData creating a row whatever its read returned.
createsRowAlways(streakData) == TRUE

\* if (!streakData): the read found no row.
createsRow(streakData) == streakData = NoRow

\* fetchStreakData: read the row, create it when absent, then read the badges.
fetchStreakData(okSelect, okCreate, okBadges) ==
    /\ loading' = FALSE
    /\ UNCHANGED <<now, dbBadges, clockSetBack, awarded>>
    /\ UNCHANGED streakFrame
    /\ IF ~okSelect
       THEN /\ sev' = StreakEvent("fetchStreakData", DateOf(now),
                                  <<Write("user_streaks", "select", FALSE)>>)
            /\ UNCHANGED <<dbStreak, streak, badges, streakRows>>
       ELSE IF createsRow(dbStreak)
       THEN /\ sev' = StreakEvent("fetchStreakData", DateOf(now),
                                  <<Write("user_streaks", "select", TRUE),
                                    Write("user_streaks", "insert", okCreate)>>)
            /\ IF ~okCreate
               THEN UNCHANGED <<dbStreak, streak, badges, streakRows>>
               ELSE /\ streakRows' = streakRows + 1
                    /\ dbStreak' = IF dbStreak = NoRow THEN DefaultStreakRow ELSE dbStreak
                    /\ streak' = DefaultStreakRow
                    /\ badges' = IF okBadges THEN Reverse(dbBadges) ELSE badges
       ELSE /\ sev' = StreakEvent("fetchStreakData", DateOf(now),
                                  <<Write("user_streaks", "select", TRUE)>>)
            /\ streak' = dbStreak
            /\ badges' = IF okBadges THEN Reverse(dbBadges) ELSE badges
            /\ UNCHANGED <<dbStreak, streakRows>>

\* updateStreak: one qualifying action.
\* okUpdate: the row update succeeds; failed: the badge inserts that fail.
updateStreak(okUpdate, failed) ==
    /\ streak # NoRow
    /\ UNCHANGED <<now, loading, clockSetBack>>
    /\ UNCHANGED streakFrame
    /\ LET today == DateOf(now)
           new == newStreak(streak, today)
           data == StreakRow(new.current_streak, new.longest_streak, today,
                             streak.total_goals_completed + 1)
           toAward == badgesToAward(new.current_streak, data.total_goals_completed, badges)
           inserted == Inserted(toAward, failed)
       IN  IF new.early
           THEN /\ okUpdate /\ failed = {}
                /\ sev' = StreakEvent("updateStreak", today, <<>>)
                /\ UNCHANGED <<dbStreak, dbBadges, streak, badges, awarded, streakRows>>
           ELSE IF ~okUpdate
           THEN /\ failed = {}
                /\ sev' = StreakEvent("updateStreak", today,
                                      <<Write("user_streaks", "update", FALSE)>>)
                /\ UNCHANGED <<dbStreak, dbBadges, streak, badges, awarded, streakRows>>
           ELSE /\ failed \subseteq TypesOf(toAward)
                /\ sev' = StreakEvent("updateStreak", today,
                             <<Write("user_streaks", "update", TRUE)>> \o
                             [i \in DOMAIN toAward |->
                                 Write("user_badges", toAward[i].badge_type,
                                       toAward[i].badge_type \notin failed)])
                /\ dbStreak' = data
                /\ streak' = data
                /\ dbBadges' = dbBadges \o inserted
                /\ badges' = Reverse(inserted) \o badges
                /\ awarded' = [t \in BadgeTypes |->
                                  awarded[t] + IF t \in TypesOf(inserted) THEN 1 ELSE 0]
                /\ UNCHANGED streakRows

\* ---------------------------------------------------------- useChallenges

NoTime == 0 - 1

\* The catalog (table challenges); its rows are data of the store.  c2 rewards
\* a type that is also a threshold badge type.
Challenges == {"c1", "c2"}

Catalog(c) ==
    IF c = "c1"
    THEN [name |-> "Focus Five", duration_days |-> 1, target_goals |-> 5,
          badge_reward |-> "challenge_five"]
    ELSE [name |-> "Quick Start", duration_days |-> 1, target_goals |-> 1,
          badge_reward |-> "streak_7"]

UserChallenge(id, c, startedAt, completedAt, n, status) ==
    [id |-> id, challenge_id |-> c, started_at |-> startedAt,
     completed_at |-> completedAt, goals_completed |-> n, status |-> status]

\* insert({ user_id, challenge_id }): the row with the table's defaults.
NewUserChallenge(id, c, t) == UserChallenge(id, c, t, NoTime, 0, "active")

\* select("*").order("started_at", { ascending: false })
NewestFirst(rows) == Reverse(rows)

\* uc => uc.challenge_id === challengeId && uc.status === "active"
existing(list, c) ==
    \E i \in DOMAIN list : list[i].challenge_id = c /\ list[i].status = "active"

\* endDate = startDate + duration_days days; isExpired = new Date() > endDate
isExpired(uc, t) == t > uc.started_at + Catalog(uc.challenge_id).duration_days * TicksPerDay

isCompleted(uc) == uc.goals_completed + 1 >= Catalog(uc.challenge_id).target_goals

\* updateChallengeProgress giving a completion time to expired rows as well.
ProgressPatchStampingFailed(uc, t) ==
    [goals_completed |-> uc.goals_completed + 1,
     status |-> IF isCompleted(uc) THEN "completed"
                ELSE IF isExpired(uc, t) THEN "failed" ELSE uc.status,
     completed_at |-> IF isCompleted(uc) \/ isExpired(uc, t) THEN t ELSE NoTime]

\* updateChallengeProgress testing expiry before completion.
ProgressPatchExpiryFirst(uc, t) ==
    [goals_completed |-> uc.goals_completed + 1,
     status |-> IF isExpired(uc, t) THEN "failed"
                ELSE IF isCompleted(uc) THEN "completed" ELSE uc.status,
     completed_at |-> IF isCompleted(uc) /\ ~isExpired(uc, t) THEN t ELSE NoTime]

\* The update updateChallengeProgress issues for a loaded active row.
ProgressPatch(uc, t) ==
    [goals_completed |-> uc.goals_completed + 1,
     status |-> IF isCompleted(uc) THEN "completed"
                ELSE IF isExpired(uc, t) THEN "failed" ELSE uc.status,
     completed_at |-> IF isCompleted(uc) THEN t ELSE NoTime]

Patched(row, patch) ==
    [row EXCEPT !.goals_completed = patch.goals_completed,
                !.status = patch.status,
                !.completed_at = patch.completed_at]

\* The loaded rows updateChallengeProgress works on: active, catalog row found.
InProgress(list, catalog) ==
    SelectSeq(list, LAMBDA uc : uc.status = "active" /\ uc.challenge_id \in catalog)

IdsOf(list) == {list[i].id : i \in DOMAIN list}

\* updateChallengeProgress awarding the badge whenever the update succeeded.
RewardsAlways(work, failedUpdates) ==
    LET won(uc) == uc.id \notin failedUpdates
    IN  SelectSeq(work, won)

\* The rows whose reward badge insert is issued: update succeeded, completed.
Rewards(work, failedUpdates) ==
    LET won(uc) == uc.id \notin failedUpdates /\ isCompleted(uc)
    IN  SelectSeq(work, won)

RewardBadge(uc) ==
    [badge_type |-> Catalog(uc.challenge_id).badge_reward,
     badge_name |-> Catalog(uc.challenge_id).name]

\* The reward badge rows whose insert succeeded, in the order they were issued.
InsertedRewards(rewards, failedInserts) ==
    LET good == SelectSeq(rewards, LAMBDA uc : uc.id \notin failedInserts)
    IN  [k \in DOMAIN good |-> RewardBadge(good[k])]

RowWrite(table, what, id, ok) == [table |-> table, what |-> what, id |-> id, ok |-> ok]

\* No call ran in the last step.
NoChallengeEvent ==
    [op |-> "none", s |-> "s1", c |-> "c1", at |-> 0, result |-> "none",
     writes |-> <<>>, preDb |-> <<>>, pre |-> <<>>, preCatalog |-> {},
     preDbBadges |-> <<>>]

ChallengeEvent(op, s, c, result, writes) ==
    [op |-> op, s |-> s, c |-> c, at |-> now, result |-> result,
     writes |-> writes, preDb |-> dbUserChallenges, pre |-> userChallenges[s],
     preCatalog |-> challenges[s], preDbBadges |-> dbBadges]

challengeFrame == <<card, dbGoals, dbTasks, dbBalance, dbTransactions, goals, goalStatus,
                    tasks, ev, dbStreak, streak, badges, loading, clockSetBack, sev, awarded,
                    streakRows,
                    creditVars, notificationVars, component, elsewhere>>

\* fetchChallenges: read the catalog, then the user's rows.
fetchChallenges(s, okChallenges, okUserChallenges) ==
    /\ cev' = NoChallengeEvent
    /\ challenges' = IF okChallenges
                     THEN [challenges EXCEPT ![s] = Challenges] ELSE challenges
    /\ userChallenges' = IF okChallenges /\ okUserChallenges
                         THEN [userChallenges EXCEPT ![s] = NewestFirst(dbUserChallenges)]
                         ELSE userChallenges
    /\ okChallenges \/ okUserChallenges
    /\ UNCHANGED <<now, ops, dbUserChallenges, dbBadges>>
    /\ UNCHANGED challengeFrame

\* joinChallenge(challengeId), from the card of a listed challenge.
joinChallenge(s, c, okInsert) ==
    /\ ops < MaxOps
    /\ ops' = ops + 1
    /\ c \in challenges[s]
    /\ IF existing(userChallenges[s], c)
       THEN /\ okInsert
            /\ cev' = ChallengeEvent("joinChallenge", s, c, "null", <<>>)
            /\ UNCHANGED <<dbUserChallenges, userChallenges>>
       ELSE /\ Len(dbUserChallenges) < MaxUserChallenges
            /\ LET data == NewUserChallenge(Len(dbUserChallenges) + 1, c, now)
               IN  /\ cev' = ChallengeEvent("joinChallenge", s, c,
                                IF okInsert THEN "row" ELSE "null",
                                <<RowWrite("user_challenges", "insert", data.id, okInsert)>>)
                   /\ dbUserChallenges' = IF okInsert THEN Append(dbUserChallenges, data)
                                          ELSE dbUserChallenges
                   /\ userChallenges' = IF okInsert
                                        THEN [userChallenges EXCEPT ![s] = <<data>> \o @]
                                        ELSE userChallenges
    /\ UNCHANGED <<now, challenges, dbBadges>>
    /\ UNCHANGED challengeFrame

\* The writes of updateChallengeProgress, in the order it issues them.
RECURSIVE ProgressWrites(_, _, _)
ProgressWrites(work, failedUpdates, failedInserts) ==
    IF work = <<>> THEN <<>>
    ELSE LET uc == Head(work)
             ok == uc.id \notin failedUpdates
         IN  <<RowWrite("user_challenges", "update", uc.id, ok)>>
             \o (IF Rewards(<<uc>>, failedUpdates) # <<>>
                 THEN <<RowWrite("user_badges", RewardBadge(uc).badge_type, uc.id,
                                 uc.id \notin failedInserts)>>
                 ELSE <<>>)
             \o ProgressWrites(Tail(work), failedUpdates, failedInserts)

\* updateChallengeProgress: one qualifying action.
\* failedUpdates, failedInserts: the rows whose update / badge insert fails.
updateChallengeProgress(s, failedUpdates, failedInserts) ==
    LET work == InProgress(userChallenges[s], challenges[s])
        done == {work[i].id : i \in {j \in DOMAIN work : work[j].id \notin failedUpdates}}
        rewards == Rewards(work, failedUpdates)
        local(id) == CHOOSE uc \in {work[i] : i \in DOMAIN work} : uc.id = id
    IN  /\ ops < MaxOps
        /\ ops' = ops + 1
        /\ failedUpdates \subseteq IdsOf(work)
        /\ failedInserts \subseteq IdsOf(rewards)
        /\ cev' = ChallengeEvent("updateChallengeProgress", s, "c1", "none",
                                 ProgressWrites(work, failedUpdates, failedInserts))
        /\ dbUserChallenges' =
              [i \in DOMAIN dbUserChallenges |->
                  IF i \in done
                  THEN Patched(dbUserChallenges[i], ProgressPatch(local(i), now))
                  ELSE dbUserChallenges[i]]
        /\ userChallenges' = [userChallenges EXCEPT ![s] =
              [k \in DOMAIN @ |->
                  IF @[k].id \in done
                  THEN Patched(@[k], ProgressPatch(local(@[k].id), now))
                  ELSE @[k]]]
        /\ dbBadges' = dbBadges \o InsertedRewards(rewards, failedInserts)
        /\ UNCHANGED <<now, challenges>>
        /\ UNCHANGED challengeFrame

\* The hook before its first fetch, over an empty store.
ChallengeIdle ==
    /\ dbUserChallenges = <<>>
    /\ challenges = [s \in Sessions |-> {}]
    /\ userChallenges = [s \in Sessions |-> <<>>]
    /\ cev = NoChallengeEvent

\* ------------------------------------------------------ useNotifications

NotificationIds == 1 .. MaxNotifications

Notification(id, isRead) == [id |-> id, is_read |-> isRead]

\* select(notifications).order(created_at, descending): the stored rows, newest first.
RECURSIVE StoredFrom(_, _)
StoredFrom(db, id) ==
    IF id = 0 THEN <<>>
    ELSE (IF db[id] \in {"unread", "read"}
          THEN <<Notification(id, db[id] = "read")>> ELSE <<>>)
         \o StoredFrom(db, id - 1)

Unread(list) == SelectSeq(list, LAMBDA n : ~n.is_read)

\* prev.map(n => n.id === notificationId ? {...n, is_read: true} : n)
MarkedRead(list, id) ==
    [k \in DOMAIN list |-> IF list[k].id = id THEN Notification(id, TRUE) ELSE list[k]]

\* prev.map(n => ({...n, is_read: true}))
AllMarkedRead(list) == [k \in DOMAIN list |-> Notification(list[k].id, TRUE)]

\* prev.filter(n => n.id !== notificationId)
Without(list, id) == SelectSeq(list, LAMBDA n : n.id # id)

\* Math.max(0, prev - 1)
Decremented(count) == IF count - 1 > 0 THEN count - 1 ELSE 0

\* No call ran in the last step.
NoNotificationEvent ==
    [op |-> "none", id |-> 0, writes |-> <<>>, preDb |-> <<>>, pre |-> <<>>, preCount |-> 0]

NotificationEvent(op, id, writes) ==
    [op |-> op, id |-> id, writes |-> writes, preDb |-> dbNotifications,
     pre |-> notifications, preCount |-> unreadCount]

\* fetchNotifications: the rows replace the list, unreadCount is recounted.
fetchNotifications(okSelect) ==
    /\ notifications' = IF okSelect THEN StoredFrom(dbNotifications, MaxNotifications)
                        ELSE notifications
    /\ unreadCount' = IF okSelect
                      THEN Len(Unread(StoredFrom(dbNotifications, MaxNotifications)))
                      ELSE unreadCount
    /\ nev' = NoNotificationEvent
    /\ UNCHANGED dbNotifications
    /\ UNCHANGED notificationFrame

\* markAsRead(notificationId)
markAsReadLocal(list, count, id, okUpdate) ==
    IF okUpdate THEN [notifications |-> MarkedRead(list, id), unreadCount |-> Decremented(count)]
    ELSE [notifications |-> list, unreadCount |-> count]

markAsRead(id, okUpdate) ==
    /\ nev' = NotificationEvent("markAsRead", id,
                                <<Write("notifications", "update", okUpdate)>>)
    /\ dbNotifications' = IF okUpdate /\ dbNotifications[id] = "unread"
                          THEN [dbNotifications EXCEPT ![id] = "read"]
                          ELSE dbNotifications
    /\ LET out == markAsReadLocal(notifications, unreadCount, id, okUpdate)
       IN  /\ notifications' = out.notifications
           /\ unreadCount' = out.unreadCount
    /\ UNCHANGED notificationFrame

\* markAllAsRead
markAllAsRead(okUpdate) ==
    /\ nev' = NotificationEvent("markAllAsRead", 0,
                                <<Write("notifications", "update", okUpdate)>>)
    /\ dbNotifications' = IF okUpdate
                          THEN [id \in NotificationIds |->
                                   IF dbNotifications[id] = "unread" THEN "read"
                                   ELSE dbNotifications[id]]
                          ELSE dbNotifications
    /\ notifications' = IF okUpdate THEN AllMarkedRead(notifications) ELSE notifications
    /\ unreadCount' = IF okUpdate THEN 0 ELSE unreadCount
    /\ UNCHANGED notificationFrame

\* deleteNotification(notificationId)
deleteNotification(id, okDelete) ==
    /\ nev' = NotificationEvent("deleteNotification", id,
                                <<Write("notifications", "delete", okDelete)>>)
    /\ dbNotifications' = IF okDelete /\ dbNotifications[id] \in {"unread", "read"}
                          THEN [dbNotifications EXCEPT ![id] = "deleted"]
                          ELSE dbNotifications
    /\ notifications' = IF okDelete THEN Without(notifications, id) ELSE notifications
    /\ LET found == SelectSeq(notifications, LAMBDA n : n.id = id)
       IN  unreadCount' = IF okDelete /\ found # <<>> /\ ~Head(found).is_read
                          THEN Decremented(unreadCount) ELSE unreadCount
    /\ UNCHANGED notificationFrame

\* createNotification(title, message, type): the inserted row is prepended.
createNotification(okInsert) ==
    /\ \E id \in NotificationIds :
          /\ dbNotifications[id] = "absent"
          /\ \A older \in 1 .. id - 1 : dbNotifications[older] # "absent"
          /\ nev' = NotificationEvent("createNotification", id,
                                      <<Write("notifications", "insert", okInsert)>>)
          /\ dbNotifications' = IF okInsert THEN [dbNotifications EXCEPT ![id] = "unread"]
                                ELSE dbNotifications
          /\ notifications' = IF okInsert THEN <<Notification(id, FALSE)>> \o notifications
                              ELSE notifications
          /\ unreadCount' = IF okInsert THEN unreadCount + 1 ELSE unreadCount
    /\ UNCHANGED notificationFrame

\* The hook before its first fetch, over an empty table.
NotificationIdle ==
    /\ dbNotifications = [id \in NotificationIds |-> "absent"]
    /\ notifications = <<>>
    /\ unreadCount = 0
    /\ nev = NoNotificationEvent

\* ------------------------------------------------------------ FocusTimer

\* The durations are minutes, timeLeft is seconds.
SecondsPerMinute == 1

\* useState(25), useState(5), useState(15), useState(4), scaled down.
DefaultWorkDuration == 2
DefaultBreakDuration == 1
DefaultLongBreakDuration == 3
DefaultSessionsBeforeLongBreak == 2

\* What the user may type into the settings panel.
WorkDurations == {1, DefaultWorkDuration}
SessionCounts == {1, DefaultSessionsBeforeLongBreak}

DefaultSettings ==
    [workDuration |-> DefaultWorkDuration,
     breakDuration |-> DefaultBreakDuration,
     longBreakDuration |-> DefaultLongBreakDuration,
     sessionsBeforeLongBreak |-> DefaultSessionsBeforeLongBreak]

FocusSession(minutes) == [session_type |-> "work", duration_minutes |-> minutes]

\* The state a render holds, as the functions it creates see it.
Render == [isWorkSession |-> isWorkSession, completedSessions |-> completedSessions,
           settings |-> settings]
NoRender == [isWorkSession |-> FALSE, completedSessions |-> 0 - 1, settings |-> DefaultSettings]

\* newCompletedSessions % sessionsBeforeLongBreak === 0 ? longBreakDuration : breakDuration
nextBreakDuration(newCompletedSessions, cfg) ==
    IF newCompletedSessions % cfg.sessionsBeforeLongBreak = 0
    THEN cfg.longBreakDuration ELSE cfg.breakDuration

\* resetTimer: isWorkSession ? workDuration * 60 : breakDuration * 60
resetLength(isWork, completed, cfg) ==
    (IF isWork THEN cfg.workDuration ELSE cfg.breakDuration) * SecondsPerMinute

\* The effect is keyed on isRunning alone: the callback keeps the
\* handleSessionEnd of the render in which the timer was started.
intervalRender(captured, current) == captured

\* No step of the timer was the last step.
NoTimerEvent ==
    [op |-> "none", wasWork |-> FALSE, preCompleted |-> 0, preRows |-> <<>>,
     workDuration |-> 0, okInsert |-> TRUE]

\* A step of the timer, with the session in progress and the table before it.
TimerEvent(op) ==
    [op |-> op, wasWork |-> isWorkSession, preCompleted |-> completedSessions,
     preRows |-> dbFocusSessions, workDuration |-> settings.workDuration,
     okInsert |-> TRUE]

\* The interval callback, one second after the last: count down, or end the
\* session.  handleSessionEnd stops the timer; for a break it starts the work
\* session, for a work session it issues the insert and waits.
tick ==
    /\ isRunning
    /\ pending = NoRender
    /\ completedSessions < MaxSessions
    /\ UNCHANGED <<settings, completedSessions, showSettings, dbFocusSessions>>
    /\ UNCHANGED timerFrame
    /\ IF timeLeft > 1
       THEN /\ timeLeft' = timeLeft - 1
            /\ tev' = NoTimerEvent
            /\ UNCHANGED <<isRunning, isWorkSession, closure, pending>>
       ELSE LET seen == intervalRender(closure, Render)
            IN  /\ isRunning' = FALSE
                /\ closure' = NoRender
                /\ tev' = TimerEvent("handleSessionEnd")
                /\ IF seen.isWorkSession
                   THEN /\ timeLeft' = 0
                        /\ pending' = seen
                        /\ UNCHANGED isWorkSession
                   ELSE /\ timeLeft' = seen.settings.workDuration * SecondsPerMinute
                        /\ isWorkSession' = TRUE
                        /\ UNCHANGED pending

\* The insert of handleSessionEnd returns and the call goes on: count the
\* session, start the break.
insertReturns(okInsert) ==
    /\ pending # NoRender
    /\ LET newCompletedSessions == pending.completedSessions + 1
       IN  /\ dbFocusSessions' =
                 IF okInsert
                 THEN Append(dbFocusSessions, FocusSession(pending.settings.workDuration))
                 ELSE dbFocusSessions
           /\ completedSessions' = newCompletedSessions
           /\ isWorkSession' = FALSE
           /\ timeLeft' = nextBreakDuration(newCompletedSessions, pending.settings)
                          * SecondsPerMinute
    /\ pending' = NoRender
    /\ tev' = [tev EXCEPT !.op = "handleSessionEnd", !.okInsert = okInsert]
    /\ UNCHANGED <<settings, isRunning, showSettings, closure>>
    /\ UNCHANGED timerFrame

\* toggleTimer, from the play / pause button; the effect keyed on isRunning
\* sets the interval up or clears it.
toggleTimer ==
    /\ ~showSettings
    /\ isRunning' = ~isRunning
    /\ closure' = IF isRunning THEN NoRender ELSE Render
    /\ tev' = IF tev.op = "handleSessionEnd" /\ pending # NoRender THEN tev ELSE NoTimerEvent
    /\ UNCHANGED <<settings, timeLeft, isWorkSession, completedSessions, showSettings,
                   pending, dbFocusSessions>>
    /\ UNCHANGED timerFrame

\* resetTimer, from the reset button.
resetTimer ==
    /\ ~showSettings
    /\ pending = NoRender
    /\ isRunning' = FALSE
    /\ closure' = NoRender
    /\ timeLeft' = resetLength(isWorkSession, completedSessions, settings)
    /\ tev' = TimerEvent("resetTimer")
    /\ UNCHANGED <<settings, isWorkSession, completedSessions, showSettings,
                   pending, dbFocusSessions>>
    /\ UNCHANGED timerFrame

\* The settings button.
toggleSettings ==
    /\ pending = NoRender
    /\ showSettings' = ~showSettings
    /\ tev' = NoTimerEvent
    /\ UNCHANGED <<settings, timeLeft, isRunning, isWorkSession, completedSessions,
                   closure, pending, dbFocusSessions>>
    /\ UNCHANGED timerFrame

\* The inputs of the settings panel: setWorkDuration, setSessionsBeforeLongBreak.
changeSettings(work, count) ==
    /\ showSettings
    /\ pending = NoRender
    /\ settings' = [settings EXCEPT !.workDuration = work,
                                    !.sessionsBeforeLongBreak = count]
    /\ settings' # settings
    /\ tev' = NoTimerEvent
    /\ UNCHANGED <<timeLeft, isRunning, isWorkSession, completedSessions, showSettings,
                   closure, pending, dbFocusSessions>>
    /\ UNCHANGED timerFrame

\* applySettings, from the button of the settings panel.
applySettings ==
    /\ showSettings
    /\ pending = NoRender
    /\ timeLeft' = settings.workDuration * SecondsPerMinute
    /\ isWorkSession' = TRUE
    /\ showSettings' = FALSE
    /\ tev' = NoTimerEvent
    /\ UNCHANGED <<settings, isRunning, completedSessions, closure, pending, dbFocusSessions>>
    /\ UNCHANGED timerFrame

\* The timer as mounted, over an empty table.
TimerIdle ==
    /\ settings = DefaultSettings
    /\ timeLeft = DefaultWorkDuration * SecondsPerMinute
    /\ isRunning = FALSE
    /\ isWorkSession = TRUE
    /\ completedSessions = 0
    /\ showSettings = FALSE
    /\ closure = NoRender
    /\ pending = NoRender
    /\ dbFocusSessions = <<>>
    /\ tev = NoTimerEvent

\* ------------------------------------------- session-protected pages

AuthView == "/auth"
Pages == {"Dashboard", "Focus", "Profile", "Reminders", "Tokens"}

NoSession == "null"
\* The sessions supabase.auth can hold, one per account.
UserSessions == {"u1", "u2"}

\* The callbacks with the one of Focus never navigating.
redirectsExceptFocus(page, event, sess) ==
    page # "Focus" /\ sess = NoSession

\* Whether the onAuthStateChange callback navigates to the authentication
\* view.  Focus tests the event, the other pages the session:
\*   Focus:  if (event === "SIGNED_OUT") navigate("/auth")
\*   others: if (!session) navigate("/auth")
redirects(page, event, sess) ==
    IF page = "Focus" THEN event = "SIGNED_OUT" ELSE sess = NoSession

\* The page's state after its onAuthStateChange callback:
\*   Focus:  else if (session) setUserId(session.user.id)
\*   others: setSession(session)
heldAfterEvent(page, held, event, sess) ==
    IF page = "Focus"
    THEN IF event # "SIGNED_OUT" /\ sess # NoSession THEN sess ELSE held
    ELSE sess

\* The page's state after getSession resolved:
\*   Focus:  if (!session) { navigate("/auth"); return; } setUserId(session.user.id)
\*   others: setSession(session); if (!session) navigate("/auth")
heldAfterCheck(page, held, sess) ==
    IF page = "Focus" /\ sess = NoSession THEN held ELSE sess

NoAuthEvent == [op |-> "none", page |-> "Dashboard", event |-> "", session |-> "u1"]
AuthEvent(op, event, sess) == [op |-> op, page |-> route, event |-> event, session |-> sess]

\* A page as the router mounts it: nothing held, its getSession call issued,
\* its subscription made.
Mounted(p) ==
    /\ route' = p
    /\ session' = NoSession
    /\ checking' = TRUE
    /\ initialPending' = TRUE

\* supabase.auth.getSession() resolves on the mounted page.
getSessionResolves ==
    /\ route \in Pages
    /\ checking
    /\ checking' = FALSE
    /\ session' = heldAfterCheck(route, session, authSession)
    /\ route' = IF authSession = NoSession THEN AuthView ELSE route
    /\ aev' = AuthEvent("getSession", "", authSession)
    /\ UNCHANGED <<authSession, initialPending>>
    /\ UNCHANGED authFrame

\* The callback the mounted page gave to onAuthStateChange.
onAuthStateChange(event, sess) ==
    /\ session' = heldAfterEvent(route, session, event, sess)
    /\ route' = IF redirects(route, event, sess) THEN AuthView ELSE route
    /\ aev' = AuthEvent("onAuthStateChange", event, sess)
    /\ UNCHANGED checking
    /\ UNCHANGED authFrame

\* The events supabase.auth sends to the subscription of the mounted page.
initialSession ==
    /\ route \in Pages
    /\ initialPending
    /\ initialPending' = FALSE
    /\ onAuthStateChange("INITIAL_SESSION", authSession)
    /\ UNCHANGED authSession

signedOut ==
    /\ route \in Pages
    /\ authSession # NoSession
    /\ authSession' = NoSession
    /\ onAuthStateChange("SIGNED_OUT", NoSession)
    /\ UNCHANGED initialPending

signedIn(u) ==
    /\ route \in Pages
    /\ authSession = NoSession
    /\ authSession' = u
    /\ onAuthStateChange("SIGNED_IN", u)
    /\ UNCHANGED initialPending

tokenRefreshed ==
    /\ route \in Pages
    /\ authSession # NoSession
    /\ onAuthStateChange("TOKEN_REFRESHED", authSession)
    /\ UNCHANGED <<authSession, initialPending>>

\* The user opens another protected page.
visit(p) ==
    /\ p # route
    /\ Mounted(p)
    /\ aev' = NoAuthEvent
    /\ UNCHANGED authSession
    /\ UNCHANGED authFrame

\* Auth: after signing in, navigate("/"), from where Index goes to the dashboard.
signInAtAuth(u) ==
    /\ route = AuthView
    /\ authSession' = u
    /\ Mounted("Dashboard")
    /\ aev' = NoAuthEvent
    /\ UNCHANGED authFrame

\* The page renders its content: if (!session) return null (userId in Focus).
ShowsUserData == route \in Pages /\ session # NoSession

\* No protected page is open.
AuthIdle ==
    /\ authSession = NoSession
    /\ route = AuthView
    /\ session = NoSession
    /\ checking = FALSE
    /\ initialPending = FALSE
    /\ aev = NoAuthEvent

\* ------------------------------------------------------ WalletBalance

NoFetch == [pc |-> "none", ok |-> TRUE, data |-> 0]

\* select balance from profiles: the server reads the row; the response is
\* on its way.
fetchBalanceReads(okSelect) ==
    /\ fetchBalance.pc = "issued"
    /\ fetchBalance' = [pc |-> "read", ok |-> okSelect, data |-> dbBalance]
    /\ UNCHANGED <<dbBalance, balanceShown, walletLoading, channel>>
    /\ UNCHANGED walletFrame

\* if (!error && data) setBalance(data.balance); setLoading(false)
fetchBalanceReturns ==
    /\ fetchBalance.pc = "read"
    /\ fetchBalance' = [fetchBalance EXCEPT !.pc = "done"]
    /\ balanceShown' = IF fetchBalance.ok THEN fetchBalance.data ELSE balanceShown
    /\ walletLoading' = FALSE
    /\ UNCHANGED <<dbBalance, channel>>
    /\ UNCHANGED walletFrame

\* The profile row is updated (a goal is credited): the store sends the new
\* row to the profile-changes channel.
profileUpdated(g) ==
    /\ fetchBalance.pc # "none"
    /\ Len(channel) < MaxProfileUpdates
    /\ dbBalance < MaxProfileUpdates * TimeAllocated(g)
    /\ dbBalance' = increment_balance(dbBalance, TimeAllocated(g))
    /\ channel' = Append(channel, increment_balance(dbBalance, TimeAllocated(g)))
    /\ UNCHANGED <<balanceShown, walletLoading, fetchBalance>>
    /\ UNCHANGED walletFrame

\* The channel callback: setBalance(payload.new.balance).
profileChanged ==
    /\ channel # <<>>
    /\ balanceShown' = Head(channel)
    /\ channel' = Tail(channel)
    /\ UNCHANGED <<dbBalance, walletLoading, fetchBalance>>
    /\ UNCHANGED walletFrame

\* WalletBalance is not mounted.
WalletIdle ==
    /\ balanceShown = 0
    /\ walletLoading = TRUE
    /\ fetchBalance = NoFetch
    /\ channel = <<>>

\* The components a specification does not exercise, as mounted.
ElsewhereIdle == TimerIdle /\ AuthIdle /\ WalletIdle

\* Time passes.
ClockAdvance ==
    /\ DateOf(now + 1) <= MaxDay
    /\ now' = now + 1
    /\ sev' = NoStreakEvent
    /\ cev' = NoChallengeEvent
    /\ UNCHANGED <<dbStreak, dbBadges, streak, badges, loading, clockSetBack, awarded,
                   streakRows>>
    /\ UNCHANGED <<goalVars, dbUserChallenges, challenges, userChallenges, creditVars,
                   notificationVars, component, elsewhere>>

\* The device clock is set back one day (once).
ClockSetBack ==
    /\ ~clockSetBack
    /\ now >= TicksPerDay
    /\ now' = now - TicksPerDay
    /\ clockSetBack' = TRUE
    /\ sev' = NoStreakEvent
    /\ UNCHANGED <<dbStreak, dbBadges, streak, badges, loading, awarded, streakRows>>
    /\ UNCHANGED streakFrame

\* The hook before its first fetch, over an empty store.
StreakIdle ==
    /\ dbStreak = NoRow
    /\ dbBadges = <<>>
    /\ streak = NoRow
    /\ badges = <<>>
    /\ loading = TRUE
    /\ clockSetBack = FALSE
    /\ sev = NoStreakEvent
    /\ awarded = [t \in BadgeTypes |-> 0]
    /\ streakRows = (IF dbStreak = NoRow THEN 0 ELSE 1)

\* Every goal freshly created (ongoing, no task completed); every session has
\* fetched the goals and every card its tasks.
GoalInit ==
    /\ now = 0
    /\ card \in CardVersions
    /\ dbGoals = [g \in Goals |-> [status |-> "ongoing", last_progress_update |-> 0]]
    /\ dbTasks = [g \in Goals |-> [t \in Tasks |-> FALSE]]
    /\ dbBalance = 0
    /\ dbTransactions = <<>>
    /\ goals = [s \in Sessions |-> [g \in Goals |-> "ongoing"]]
    /\ goalStatus = [s \in Sessions |-> [g \in Goals |-> "ongoing"]]
    /\ tasks = [s \in Sessions |-> [g \in Goals |-> [t \in Tasks |-> FALSE]]]
    /\ ops = 0
    /\ ev = NoEvent
    /\ StreakIdle
    /\ ChallengeIdle
    /\ CreditIdle
    /\ NotificationIdle
    /\ ElsewhereIdle
    /\ component = "GoalCard"

GoalNext ==
    \/ \E s \in Sessions, g \in Goals, t \in Tasks, okTask, okStatus, okRpc, okTx \in BOOLEAN :
          toggleTask(s, g, t, okTask, okStatus, okRpc, okTx)
    \/ \E s \in Sessions, g \in Goals, okTasks, okGoal \in BOOLEAN :
          deleteGoal(s, g, okTasks, okGoal)
    \/ \E s \in Sessions : fetchGoals(s)
    \/ Tick

GoalSpec == GoalInit /\ [][GoalNext]_vars

\* The badges a row's longest streak and total have earned.
Earned(row) ==
    LET met(r) == (IF r.metric = "streak" THEN row.longest_streak
                   ELSE row.total_goals_completed) >= r.threshold
        chosen == SelectSeq(BadgeTable, met)
    IN  [i \in DOMAIN chosen |-> Badge(chosen[i])]

\* What the hook may find in the store: no row, or a row earlier use has left
\* (its last qualifying day being day 0; the clock starts on day 1), with the
\* badges it earned or, for the smaller rows, with none of them inserted.
InitialStores ==
    { <<NoRow, <<>> >>,
      <<DefaultStreakRow, <<>> >>,
      <<StreakRow(1, 1, 0, 1), <<>> >>,
      <<StreakRow(6, 6, 0, 9), <<>> >>,
      <<StreakRow(6, 8, 0, 49), <<>> >>,
      <<StreakRow(6, 8, 0, 49), Earned(StreakRow(6, 8, 0, 49))>>,
      <<StreakRow(29, 29, 0, 99), Earned(StreakRow(29, 29, 0, 99))>> }

StreakInit ==
    /\ now = TicksPerDay
    /\ \E store \in InitialStores : dbStreak = store[1] /\ dbBadges = store[2]
    /\ streak = NoRow
    /\ badges = <<>>
    /\ loading = TRUE
    /\ clockSetBack = FALSE
    /\ sev = NoStreakEvent
    /\ awarded = [t \in BadgeTypes |-> 0]
    /\ streakRows = (IF dbStreak = NoRow THEN 0 ELSE 1)
    /\ card = "v1"
    /\ dbGoals = [g \in Goals |-> [status |-> "ongoing", last_progress_update |-> 0]]
    /\ dbTasks = [g \in Goals |-> [t \in Tasks |-> FALSE]]
    /\ dbBalance = 0
    /\ dbTransactions = <<>>
    /\ goals = [s \in Sessions |-> [g \in Goals |-> "ongoing"]]
    /\ goalStatus = [s \in Sessions |-> [g \in Goals |-> "ongoing"]]
    /\ tasks = [s \in Sessions |-> [g \in Goals |-> [t \in Tasks |-> FALSE]]]
    /\ ops = 0
    /\ ev = NoEvent
    /\ ChallengeIdle
    /\ CreditIdle
    /\ NotificationIdle
    /\ ElsewhereIdle
    /\ component = "useStreaks"

StreakNext ==
    \/ \E okSelect, okCreate, okBadges \in BOOLEAN :
          fetchStreakData(okSelect, okCreate, okBadges)
    \/ \E okUpdate \in BOOLEAN, failed \in SUBSET BadgeTypes :
          updateStreak(okUpdate, failed)
    \/ ClockAdvance
    \/ ClockSetBack

StreakSpec == StreakInit /\ [][StreakNext]_vars

\* The dashboard with its goal untouched (the goal part of a specification
\* that explores another component).
GoalIdle ==
    /\ card = "v1"
    /\ dbGoals = [g \in Goals |-> [status |-> "ongoing", last_progress_update |-> 0]]
    /\ dbTasks = [g \in Goals |-> [t \in Tasks |-> FALSE]]
    /\ dbBalance = 0
    /\ dbTransactions = <<>>
    /\ goals = [s \in Sessions |-> [g \in Goals |-> "ongoing"]]
    /\ goalStatus = [s \in Sessions |-> [g \in Goals |-> "ongoing"]]
    /\ tasks = [s \in Sessions |-> [g \in Goals |-> [t \in Tasks |-> FALSE]]]
    /\ ops = 0
    /\ ev = NoEvent

\* The instant the challenge specification starts at: midnight of the last day.
ChallengeStart == MaxDay * TicksPerDay

\* What the hook may find in user_challenges: nothing; a c1 row started the
\* day before and two goals short of its target; a row of a challenge that
\* has left the catalog.
InitialUserChallenges ==
    { <<>>,
      <<UserChallenge(1, "c1", ChallengeStart - TicksPerDay, NoTime, 3, "active")>>,
      <<UserChallenge(1, "c0", ChallengeStart - TicksPerDay, NoTime, 0, "active")>> }

ChallengeInit ==
    /\ now = ChallengeStart
    /\ dbUserChallenges \in InitialUserChallenges
    /\ challenges = [s \in Sessions |-> {}]
    /\ userChallenges = [s \in Sessions |-> <<>>]
    /\ cev = NoChallengeEvent
    /\ dbStreak = NoRow
    /\ dbBadges = <<>>
    /\ streak = NoRow
    /\ badges = <<>>
    /\ loading = TRUE
    /\ clockSetBack = FALSE
    /\ sev = NoStreakEvent
    /\ awarded = [t \in BadgeTypes |-> 0]
    /\ streakRows = (IF dbStreak = NoRow THEN 0 ELSE 1)
    /\ GoalIdle
    /\ CreditIdle
    /\ NotificationIdle
    /\ ElsewhereIdle
    /\ component = "useChallenges"

ChallengeNext ==
    \/ \E s \in Sessions, okChallenges, okUserChallenges \in BOOLEAN :
          fetchChallenges(s, okChallenges, okUserChallenges)
    \/ \E s \in Sessions, c \in Challenges, okInsert \in BOOLEAN :
          joinChallenge(s, c, okInsert)
    \/ \E s \in Sessions, failedUpdates, failedInserts \in SUBSET (1 .. MaxUserChallenges) :
          updateChallengeProgress(s, failedUpdates, failedInserts)
    \/ ClockAdvance

ChallengeSpec == ChallengeInit /\ [][ChallengeNext]_vars

\* Two sessions, each showing its own ongoing goal before the deadline, whose
\* toggleTask has just completed the last task and calls completeGoalEarly;
\* the profile page not yet loaded.
CreditInit ==
    /\ now = 0
    /\ card \in CardVersions
    /\ dbGoals = [g \in CreditGoals |-> [status |-> "ongoing", last_progress_update |-> 0]]
    /\ dbTasks = [g \in CreditGoals |-> [t \in Tasks |-> TRUE]]
    /\ dbBalance = 0
    /\ dbTransactions = <<>>
    /\ goals = [s \in Sessions |-> [g \in CreditGoals |-> "ongoing"]]
    /\ goalStatus = [s \in Sessions |-> [g \in CreditGoals |-> "ongoing"]]
    /\ tasks = [s \in Sessions |-> [g \in CreditGoals |-> [t \in Tasks |-> TRUE]]]
    /\ ops = 0
    /\ ev = NoEvent
    /\ pc = [s \in Sessions |-> "status"]
    /\ credited = [s \in Sessions |-> FALSE]
    /\ dbUsername = "sam"
    /\ profile = NoProfile
    /\ form = [username |-> ""]
    /\ saveSaw = NoSave
    /\ StreakIdle
    /\ ChallengeIdle
    /\ NotificationIdle
    /\ ElsewhereIdle
    /\ component = "GoalCard"

CreditNext ==
    \/ \E s \in Sessions, okStatus \in BOOLEAN : completeStatus(s, okStatus)
    \/ \E s \in Sessions, okRpc \in BOOLEAN : completeRpc(s, okRpc)
    \/ \E s \in Sessions, okTx \in BOOLEAN : completeTx(s, okTx)
    \/ \E okSelect \in BOOLEAN : fetchProfile(okSelect)
    \/ \E value \in Usernames : updateField(value)
    \/ \E okUpdate, okSelect \in BOOLEAN : handleSave(okUpdate, okSelect)

CreditSpec == CreditInit /\ [][CreditNext]_vars

\* What the hook may find in the table: nothing, one unread row, or a read
\* row and a newer unread one.
InitialNotifications ==
    { [id \in NotificationIds |-> "absent"],
      [id \in NotificationIds |-> IF id = 1 THEN "unread" ELSE "absent"],
      [id \in NotificationIds |-> IF id = 1 THEN "read"
                                  ELSE IF id = 2 THEN "unread" ELSE "absent"] }

NotificationInit ==
    /\ now = 0
    /\ dbNotifications \in InitialNotifications
    /\ notifications = <<>>
    /\ unreadCount = 0
    /\ nev = NoNotificationEvent
    /\ GoalIdle
    /\ StreakIdle
    /\ ChallengeIdle
    /\ CreditIdle
    /\ ElsewhereIdle
    /\ component = "useNotifications"

NotificationNext ==
    \/ \E okSelect \in BOOLEAN : fetchNotifications(okSelect)
    \/ \E id \in NotificationIds, okUpdate \in BOOLEAN : markAsRead(id, okUpdate)
    \/ \E okUpdate \in BOOLEAN : markAllAsRead(okUpdate)
    \/ \E id \in NotificationIds, okDelete \in BOOLEAN : deleteNotification(id, okDelete)
    \/ \E okInsert \in BOOLEAN : createNotification(okInsert)

NotificationSpec == NotificationInit /\ [][NotificationNext]_vars

TimerInit ==
    /\ now = 0
    /\ TimerIdle
    /\ GoalIdle
    /\ StreakIdle
    /\ ChallengeIdle
    /\ CreditIdle
    /\ NotificationIdle
    /\ AuthIdle
    /\ WalletIdle
    /\ component = "FocusTimer"

TimerNext ==
    \/ tick
    \/ \E okInsert \in BOOLEAN : insertReturns(okInsert)
    \/ toggleTimer
    \/ resetTimer
    \/ toggleSettings
    \/ \E work \in WorkDurations, count \in SessionCounts : changeSettings(work, count)
    \/ applySettings

TimerSpec == TimerInit /\ [][TimerNext]_vars

AuthInit ==
    /\ now = 0
    /\ authSession \in {NoSession} \cup UserSessions
    /\ route \in Pages
    /\ session = NoSession
    /\ checking = TRUE
    /\ initialPending = TRUE
    /\ aev = NoAuthEvent
    /\ GoalIdle
    /\ StreakIdle
    /\ ChallengeIdle
    /\ CreditIdle
    /\ NotificationIdle
    /\ TimerIdle
    /\ WalletIdle
    /\ component = "Pages"

AuthNext ==
    \/ getSessionResolves
    \/ initialSession
    \/ signedOut
    \/ \E u \in UserSessions : signedIn(u)
    \/ tokenRefreshed
    \/ \E p \in Pages : visit(p)
    \/ \E u \in UserSessions : signInAtAuth(u)

AuthSpec == AuthInit /\ [][AuthNext]_vars

\* getSession resolves: the promise of a mounted page is not left pending.
AuthLiveSpec == AuthSpec /\ WF_vars(getSessionResolves)

WalletInit ==
    /\ now = 0
    /\ balanceShown = 0
    /\ walletLoading = TRUE
    /\ fetchBalance = [pc |-> "issued", ok |-> TRUE, data |-> 0]
    /\ channel = <<>>
    /\ GoalIdle
    /\ StreakIdle
    /\ ChallengeIdle
    /\ CreditIdle
    /\ NotificationIdle
    /\ TimerIdle
    /\ AuthIdle
    /\ component = "WalletBalance"

WalletNext ==
    \/ \E okSelect \in BOOLEAN : fetchBalanceReads(okSelect)
    \/ fetchBalanceReturns
    \/ \E g \in Goals : profileUpdated(g)
    \/ profileChanged

WalletSpec == WalletInit /\ [][WalletNext]_vars

\* Every writing operation, one component at a time: a behaviour starts as one
\* of the specifications above does and runs that component's handlers.
ErrorInit == GoalInit \/ StreakInit \/ ChallengeInit \/ NotificationInit

ErrorNext ==
    \/ component = "GoalCard" /\ GoalNext
    \/ component = "useStreaks" /\ StreakNext
    \/ component = "useChallenges" /\ ChallengeNext
    \/ component = "useNotifications" /\ NotificationNext

ErrorSpec == ErrorInit /\ [][ErrorNext]_vars

\* ------------------------------------------------------- goal claims

AllDone(ts) == DOMAIN ts # {} /\ \A t \in DOMAIN ts : ts[t]

\* The last handler run was a toggleTask of an ongoing goal all of whose writes
\* succeeded, after which every task of the goal is completed, in the store
\* and in the toggling card alike.
CompletingToggle ==
    /\ ev.op = "toggleTask"
    /\ ev.ok
    /\ ev.preStatus = "ongoing"
    /\ AllDone(dbTasks[ev.g])
    /\ tasks[ev.s][ev.g] = dbTasks[ev.g]

\* C1: a toggleTask that completes every task of an ongoing goal strictly
\* before the deadline makes the goal completed, adds exactly time_allocated
\* to the balance and appends exactly one credit Transaction for the goal.
C1_TimelyCompletionCredits ==
    (CompletingToggle /\ ev.at < Deadline) =>
        /\ dbGoals[ev.g].status = "completed"
        /\ dbBalance = ev.preBalance + TimeAllocated(ev.g)
        /\ dbTransactions = Append(ev.preTransactions, CreditTransaction(ev.g))

\* C2: a toggleTask that completes every task of an ongoing goal at or after
\* the deadline makes the goal failed and leaves balance and ledger alone.
C2_LateCompletionFails ==
    (CompletingToggle /\ ev.at >= Deadline) =>
        /\ dbGoals[ev.g].status = "failed"
        /\ dbBalance = ev.preBalance
        /\ dbTransactions = ev.preTransactions

\* C3: a stored status that is completed or failed never changes again, except
\* that deleteGoal removes the row.
C3_TerminalStatusImmutable ==
    [][\A g \in Goals :
          dbGoals[g].status \in {"completed", "failed"} =>
              dbGoals'[g].status \in {dbGoals[g].status, "deleted"}]_vars

\* C4: deleteGoal changes neither the balance nor the ledger, whatever the
\* status of the goal it deletes.
C4_DeleteKeepsBalanceAndLedger ==
    ev.op = "deleteGoal" =>
        /\ dbBalance = ev.preBalance
        /\ dbTransactions = ev.preTransactions

\* A completed and credited goal has been deleted.
C4_Witness_CreditedGoalDeleted ==
    /\ ev.op = "deleteGoal"
    /\ ev.ok
    /\ ev.preStatus = "completed"
    /\ ev.preBalance = TimeAllocated(ev.g)
    /\ dbGoals[ev.g].status = "deleted"

\* C19: the ledger is append-only: every step keeps the Transaction rows there
\* are, unchanged and in place, and at most appends rows.
C19_LedgerAppendOnly ==
    [][/\ Len(dbTransactions') >= Len(dbTransactions)
       /\ SubSeq(dbTransactions', 1, Len(dbTransactions)) = dbTransactions]_vars

\* A goal has been deleted while the ledger held its credit row.
C19_Witness_LedgerKeptOnDelete ==
    /\ ev.op = "deleteGoal" /\ ev.ok
    /\ \E i \in DOMAIN ev.preTransactions : ev.preTransactions[i].goal_id = ev.g
    /\ dbGoals[ev.g].status = "deleted"
    /\ dbTransactions = ev.preTransactions

\* C18: the balance is changed by increment_balance alone (no client write
\* sets it, handleSave included) and no concurrent credit is lost: the stored
\* balance is always the initial balance plus the amount of every
\* increment_balance call that succeeded.
C18_BalanceIsSumOfCredits ==
    dbBalance = (IF credited["s1"] THEN TimeAllocated(CreditGoalOf("s1")) ELSE 0)
              + (IF credited["s2"] THEN TimeAllocated(CreditGoalOf("s2")) ELSE 0)

\* Both sessions have credited their goals, and the profile was saved from a
\* page that still held the balance fetched before the credits.
C18_Witness_BothCreditsKept ==
    /\ credited["s1"] /\ credited["s2"]
    /\ pc = [s \in Sessions |-> "done"]
    /\ saveSaw.held = 0
    /\ saveSaw.stored > 0
    /\ dbUsername = "ann"
    /\ dbBalance = 10800

\* ------------------------------------------------------- streak claims

\* The last step was an updateStreak call over a loaded row with a last day.
StreakCall == sev.op = "updateStreak"
CallDiff == diffDays(sev.today, sev.pre.last_streak_date)
DatedCall == StreakCall /\ sev.pre.last_streak_date # NoDate
\* The call's update of the streak row was issued and succeeded.
UpdatePersisted == StreakCall /\ sev.writes # <<>> /\ sev.writes[1].ok
AllWritesOk == \A i \in DOMAIN sev.writes : sev.writes[i].ok

NothingWritten ==
    /\ sev.writes = <<>>
    /\ dbStreak = sev.preDb
    /\ dbBadges = sev.preDbBadges
    /\ streak = sev.pre
    /\ badges = sev.preBadges

\* C5: an updateStreak call on the calendar day of last_streak_date
\* (diffDays = 0) issues no write and leaves the streak row and the badges as
\* they were.
C5_SameDayIsNoOp == (DatedCall /\ CallDiff = 0) => NothingWritten

\* A same-day call on a row with a running streak.
C5_Witness_SameDayCall ==
    DatedCall /\ CallDiff = 0 /\ sev.pre.current_streak >= 1

\* C6: an updateStreak call with diffDays = 1 persists current_streak + 1 and
\* longest_streak = max(previous longest_streak, new current_streak).
C6_ConsecutiveDayExtends ==
    (DatedCall /\ CallDiff = 1 /\ UpdatePersisted) =>
        /\ dbStreak.current_streak = sev.preDb.current_streak + 1
        /\ dbStreak.longest_streak =
              Max(sev.preDb.longest_streak, sev.preDb.current_streak + 1)

\* A consecutive-day call has raised the longest streak.
C6_Witness_LongestRaised ==
    /\ DatedCall /\ CallDiff = 1 /\ UpdatePersisted
    /\ sev.preDb.longest_streak = sev.preDb.current_streak
    /\ dbStreak.longest_streak = sev.preDb.longest_streak + 1

\* C7: an updateStreak call that does not continue a chain (no last day, or
\* a gap of more than one day) persists current_streak = 1 and
\* last_streak_date = today.
C7_FirstOrGapRestarts ==
    (UpdatePersisted /\ (sev.pre.last_streak_date = NoDate \/ CallDiff > 1)) =>
        /\ dbStreak.current_streak = 1
        /\ dbStreak.last_streak_date = DateOf(now)

\* A running streak has been broken by a gap.
C7_Witness_GapBreaksStreak ==
    /\ DatedCall /\ CallDiff > 1 /\ UpdatePersisted
    /\ sev.preDb.current_streak > 1
    /\ dbStreak.current_streak = 1

\* C8: every qualifying action, all of its writes succeeding, adds one to
\* total_goals_completed (so n actions add n, several on one day included).
C8_EveryActionCounted ==
    (StreakCall /\ AllWritesOk) =>
        dbStreak.total_goals_completed = sev.preDb.total_goals_completed + 1

\* C9: an updateStreak call with today before last_streak_date (diffDays < 0)
\* issues no write and leaves the streak row as it was.
C9_NegativeDiffIsNoOp == (DatedCall /\ CallDiff < 0) => NothingWritten

\* The rows of the badge table that (streak, total) meets.
MetTypes(currentStreak, totalGoals) ==
    (IF currentStreak >= 7 THEN {"streak_7"} ELSE {}) \cup
    (IF currentStreak >= 30 THEN {"streak_30"} ELSE {}) \cup
    (IF totalGoals >= 10 THEN {"goals_10"} ELSE {}) \cup
    (IF totalGoals >= 50 THEN {"goals_50"} ELSE {}) \cup
    (IF totalGoals >= 100 THEN {"goals_100"} ELSE {})

BadgeNameOf(type) ==
    CASE type = "streak_7" -> "Week Warrior"
      [] type = "streak_30" -> "Monthly Master"
      [] type = "goals_10" -> "Goal Getter"
      [] type = "goals_50" -> "Achievement Hunter"
      [] type = "goals_100" -> "Century Champion"

BadgeWrites == SelectSeq(sev.writes, LAMBDA w : w.table = "user_badges")
NewBadgeRows == SubSeq(dbBadges, Len(sev.preDbBadges) + 1, Len(dbBadges))

\* C10: after a persisted streak update, a badge insert is issued for exactly
\* the table rows the new streak and new total meet and whose type is not in
\* the loaded list, once each, and every insert that succeeds adds the row
\* (type and name of the table) to user_badges.
C10_BadgesForMetThresholds ==
    UpdatePersisted =>
        /\ {BadgeWrites[i].what : i \in DOMAIN BadgeWrites} =
              MetTypes(dbStreak.current_streak, dbStreak.total_goals_completed)
                  \ TypesOf(sev.preBadges)
        /\ Cardinality({BadgeWrites[i].what : i \in DOMAIN BadgeWrites}) = Len(BadgeWrites)
        /\ Len(dbBadges) >= Len(sev.preDbBadges)
        /\ SubSeq(dbBadges, 1, Len(sev.preDbBadges)) = sev.preDbBadges
        /\ TypesOf(NewBadgeRows) =
              {BadgeWrites[i].what : i \in {j \in DOMAIN BadgeWrites : BadgeWrites[j].ok}}
        /\ Len(NewBadgeRows) = Cardinality(TypesOf(NewBadgeRows))
        /\ \A i \in DOMAIN NewBadgeRows :
              NewBadgeRows[i].badge_name = BadgeNameOf(NewBadgeRows[i].badge_type)

\* Streak 6, a next-day action: streak 7 and a streak_7 "Week Warrior" badge.
C10_Witness_WeekWarrior ==
    /\ DatedCall /\ CallDiff = 1 /\ UpdatePersisted
    /\ sev.preDb.current_streak = 6
    /\ dbStreak.current_streak = 7
    /\ "streak_7" \notin TypesOf(sev.preDbBadges)
    /\ \E i \in DOMAIN dbBadges :
          dbBadges[i] = [badge_type |-> "streak_7", badge_name |-> "Week Warrior"]

\* C12: within one session, no badge insert is issued for a type in the loaded
\* list, a successful insert puts the type into the list, and so each badge
\* type is inserted at most once by the session's updateStreak calls.
C12_InsertedOncePerSession ==
    /\ \A t \in BadgeTypes : awarded[t] <= 1
    /\ \A t \in BadgeTypes : awarded[t] = 1 => t \in TypesOf(badges)
    /\ UpdatePersisted =>
          /\ \A i \in DOMAIN BadgeWrites : BadgeWrites[i].what \notin TypesOf(sev.preBadges)
          /\ \A i \in DOMAIN BadgeWrites :
                BadgeWrites[i].ok => BadgeWrites[i].what \in TypesOf(badges)

\* A later call met the streak_7 threshold again, its badge being in the list
\* since an earlier call of the session, and issued no insert for it.
C12_Witness_NotInsertedAgain ==
    /\ UpdatePersisted
    /\ awarded["streak_7"] = 1
    /\ dbStreak.current_streak >= 8
    /\ "streak_7" \in TypesOf(sev.preBadges)
    /\ \A i \in DOMAIN BadgeWrites : BadgeWrites[i].what # "streak_7"

\* ---------------------------------------------------- challenge claims

ProgressCall == cev.op = "updateChallengeProgress"
UpdateWrites == SelectSeq(cev.writes, LAMBDA w : w.table = "user_challenges")
RewardWrites == SelectSeq(cev.writes, LAMBDA w : w.table = "user_badges")
\* The rows the call's update reached / failed to reach.
WrittenIds == {UpdateWrites[i].id : i \in {j \in DOMAIN UpdateWrites : UpdateWrites[j].ok}}
IssuedIds == {UpdateWrites[i].id : i \in DOMAIN UpdateWrites}
\* The rows the hook had loaded when the call started.
LoadedRows == {cev.pre[k] : k \in DOMAIN cev.pre}
\* The status the rule gives a loaded active row at the time of the call.
RuleStatus(uc) ==
    IF uc.goals_completed + 1 >= Catalog(uc.challenge_id).target_goals THEN "completed"
    ELSE IF cev.at > uc.started_at + Catalog(uc.challenge_id).duration_days * TicksPerDay
         THEN "failed"
    ELSE "active"

NewRewardRows == SubSeq(dbBadges, Len(cev.preDbBadges) + 1, Len(dbBadges))

\* C14: a reward badge insert is issued exactly for the rows whose update to
\* completed was persisted by the call (none for a row that stays active,
\* becomes failed, or whose update fails), and every insert that succeeds adds
\* one row with badge_type = badge_reward and badge_name = name of the
\* challenge to user_badges.
C14_RewardOnPersistedCompletion ==
    ProgressCall =>
        /\ {RewardWrites[i].id : i \in DOMAIN RewardWrites} =
              {id \in WrittenIds : dbUserChallenges[id].status = "completed"}
        /\ Len(RewardWrites) = Cardinality({RewardWrites[i].id : i \in DOMAIN RewardWrites})
        /\ Len(dbBadges) >= Len(cev.preDbBadges)
        /\ SubSeq(dbBadges, 1, Len(cev.preDbBadges)) = cev.preDbBadges
        /\ LET good == SelectSeq(RewardWrites, LAMBDA w : w.ok)
           IN  /\ Len(NewRewardRows) = Len(good)
               /\ \A k \in DOMAIN good :
                     LET c == dbUserChallenges[good[k].id].challenge_id
                     IN  /\ NewRewardRows[k].badge_type = Catalog(c).badge_reward
                         /\ NewRewardRows[k].badge_name = Catalog(c).name

\* target_goals = 5, goals_completed = 4, one more goal before expiry: 5,
\* completed, one reward badge.
C14_Witness_FifthGoal ==
    /\ ProgressCall
    /\ \E uc \in LoadedRows :
          /\ uc.id \in WrittenIds
          /\ Catalog(uc.challenge_id).target_goals = 5
          /\ uc.goals_completed = 4
          /\ cev.at <= uc.started_at + Catalog(uc.challenge_id).duration_days * TicksPerDay
          /\ dbUserChallenges[uc.id].goals_completed = 5
          /\ dbUserChallenges[uc.id].status = "completed"
          /\ NewRewardRows = <<[badge_type |-> "challenge_five", badge_name |-> "Focus Five"]>>

\* C15: a user holds at most one active UserChallenge per Challenge id.
C15_OneActivePerChallenge ==
    \A i, j \in DOMAIN dbUserChallenges :
        (/\ dbUserChallenges[i].status = "active"
         /\ dbUserChallenges[j].status = "active"
         /\ dbUserChallenges[i].challenge_id = dbUserChallenges[j].challenge_id) => i = j

\* C16: a stored UserChallenge that is completed or failed is never modified
\* again.
C16_TerminalChallengeImmutable ==
    [][\A i \in DOMAIN dbUserChallenges :
          dbUserChallenges[i].status \in {"completed", "failed"} =>
              dbUserChallenges'[i] = dbUserChallenges[i]]_vars

\* C17: in every row written by updateChallengeProgress, completed_at is set
\* if and only if the status is completed.
C17_CompletedAtIffCompleted ==
    ProgressCall =>
        \A id \in WrittenIds :
            (dbUserChallenges[id].completed_at # NoTime) <=>
                (dbUserChallenges[id].status = "completed")

\* One call has stored a row failed (no completed_at) and a row completed.
C17_Witness_FailedAndCompleted ==
    /\ ProgressCall
    /\ \E i, j \in WrittenIds :
          /\ dbUserChallenges[i].status = "failed"
          /\ dbUserChallenges[i].completed_at = NoTime
          /\ dbUserChallenges[j].status = "completed"
          /\ dbUserChallenges[j].completed_at = cev.at

\* ------------------------------------------------ error-handling claims

\* The writes a call issued, by table and by outcome.
WritesTo(writes, tables) == SelectSeq(writes, LAMBDA w : w.table \in tables)
FailedIn(writes) == SelectSeq(writes, LAMBDA w : ~w.ok)

\* The call's own (first) write returned an error.
OwnWriteFailed(writes) == writes # <<>> /\ ~writes[1].ok

\* The status write of a completeGoalEarly that toggleTask called.
CompletionWrites == SelectSeq(ev.writes, LAMBDA w : w.table = "goals" /\ w.what = "completed")

\* toggleTask: a failed task write leaves the card's tasks and goalStatus as
\* they were and is the only write.  completeGoalEarly: a failed status write
\* leaves goalStatus as it was, is issued once, and no increment_balance or
\* transaction insert follows; a failed increment_balance is issued once and
\* no transaction insert follows.
GoalCardKeepsStateOnError ==
    /\ ev.op = "toggleTask" /\ OwnWriteFailed(ev.writes)
       => /\ tasks[ev.s][ev.g] = ev.preTasks
          /\ goalStatus[ev.s][ev.g] = ev.preGoalStatus
          /\ Len(ev.writes) = 1
    /\ ev.op = "toggleTask" /\ FailedIn(CompletionWrites) # <<>>
       => /\ goalStatus[ev.s][ev.g] = ev.preGoalStatus
          /\ Len(CompletionWrites) = 1
          /\ WritesTo(ev.writes, {"rpc", "transactions"}) = <<>>
          /\ dbBalance = ev.preBalance
          /\ dbTransactions = ev.preTransactions
    /\ ev.op = "toggleTask" /\ FailedIn(WritesTo(ev.writes, {"rpc"})) # <<>>
       => /\ Len(WritesTo(ev.writes, {"rpc"})) = 1
          /\ WritesTo(ev.writes, {"transactions"}) = <<>>
          /\ dbBalance = ev.preBalance
          /\ dbTransactions = ev.preTransactions

\* updateStreak: a failed row update leaves streak and badges as they were,
\* is issued once, and no badge insert follows; a failed badge insert adds
\* nothing to badges and is issued once.
UseStreaksKeepsStateOnError ==
    /\ sev.op = "updateStreak" /\ OwnWriteFailed(sev.writes)
       => /\ streak = sev.pre
          /\ badges = sev.preBadges
          /\ Len(sev.writes) = 1
          /\ dbBadges = sev.preDbBadges
    /\ sev.op = "updateStreak"
       => \A i \in DOMAIN sev.writes :
             sev.writes[i].table = "user_badges" /\ ~sev.writes[i].ok
             => /\ sev.writes[i].what \notin TypesOf(badges)
                /\ Len(SelectSeq(sev.writes, LAMBDA w : w.what = sev.writes[i].what)) = 1

\* The ids whose progress update returned an error in the last call.
FailedProgressIds ==
    {w.id : w \in {cev.writes[i] : i \in {j \in DOMAIN cev.writes :
                      cev.writes[j].table = "user_challenges" /\ ~cev.writes[j].ok}}}

\* joinChallenge: a failed insert leaves the list as it was, returns null and
\* is issued once.  updateChallengeProgress: a row whose update failed is left
\* as it was in the list, its update is issued once, and no badge insert for
\* it follows.
UseChallengesKeepsStateOnError ==
    /\ cev.op = "joinChallenge" /\ OwnWriteFailed(cev.writes)
       => /\ userChallenges[cev.s] = cev.pre
          /\ challenges[cev.s] = cev.preCatalog
          /\ cev.result = "null"
          /\ Len(cev.writes) = 1
    /\ cev.op = "updateChallengeProgress"
       => /\ Len(userChallenges[cev.s]) = Len(cev.pre)
          /\ \A id \in FailedProgressIds :
                /\ \A k \in DOMAIN cev.pre :
                      cev.pre[k].id = id => userChallenges[cev.s][k] = cev.pre[k]
                /\ Len(SelectSeq(cev.writes, LAMBDA w : w.id = id)) = 1
          /\ FailedProgressIds = {w.id : w \in {cev.writes[i] : i \in DOMAIN cev.writes}}
             => userChallenges[cev.s] = cev.pre /\ dbBadges = cev.preDbBadges

\* markAsRead, markAllAsRead, deleteNotification: a failed write leaves the
\* list and unreadCount as they were and is issued once.
UseNotificationsKeepsStateOnError ==
    nev.op \in {"markAsRead", "markAllAsRead", "deleteNotification"}
       /\ OwnWriteFailed(nev.writes)
    => /\ notifications = nev.pre
       /\ unreadCount = nev.preCount
       /\ dbNotifications = nev.preDb
       /\ Len(nev.writes) = 1

C21_TasksDeletedBeforeGoal ==
    /\ \A g \in DOMAIN dbGoals : dbGoals[g].status = "deleted" => dbTasks[g] = NoTasks
    /\ ev.op = "deleteGoal" /\ ev.ok
       => dbTasks[ev.g] = NoTasks /\ dbGoals[ev.g].status = "deleted"
    /\ ev.op = "deleteGoal" /\ ~ev.writes[1].ok
       => /\ dbGoals[ev.g].status = ev.preStatus
          /\ Len(ev.writes) = 1

\* A goal with a completed task has just been deleted, tasks first.
C21_Witness_GoalAndTasksDeleted ==
    /\ ev.op = "deleteGoal"
    /\ ev.ok
    /\ ev.preStatus = "ongoing"
    /\ \E t \in DOMAIN ev.preTasks : ev.preTasks[t]
    /\ ev.writes = <<Write("tasks", "delete", TRUE), Write("goals", "delete", TRUE)>>
    /\ dbTasks[ev.g] = NoTasks
    /\ dbGoals[ev.g].status = "deleted"

\* -------------------------------------------------------- ordering claims

\* Every write of kind Later in the log comes after a write of kind Earlier.
ComesAfter(writes, Later(_), Earlier(_)) ==
    \A j \in DOMAIN writes :
       Later(writes[j]) => \E i \in 1 .. (j - 1) : Earlier(writes[i])

IsStatusWrite(w) == w.table = "goals" /\ w.what = "completed"
IsIncrement(w) == w.table = "rpc"
IsCreditInsert(w) == w.table = "transactions"
IsTaskDeletion(w) == w.table = "tasks" /\ w.what = "delete"
IsGoalDeletion(w) == w.table = "goals" /\ w.what = "delete"
IsStreakUpdate(w) == w.table = "user_streaks"
IsBadgeInsert(w) == w.table = "user_badges"

\* C23: within one user action the writes are issued one after another: in
\* goal completion the status write has returned before increment_balance is
\* issued and the increment before the credit transaction insert; in
\* deleteGoal the task deletion before the goal deletion; in updateStreak the
\* row update before any badge insert.
C23_WritesOneAfterAnother ==
    /\ ev.op = "toggleTask"
       => /\ ComesAfter(ev.writes, IsIncrement, IsStatusWrite)
          /\ ComesAfter(ev.writes, IsCreditInsert, IsIncrement)
    /\ ev.op = "deleteGoal"
       => ComesAfter(ev.writes, IsGoalDeletion, IsTaskDeletion)
    /\ sev.op = "updateStreak"
       => ComesAfter(sev.writes, IsBadgeInsert, IsStreakUpdate)

\* The first card version has completed a goal: status, increment, insert.
C23_Witness_ThreeWritesOfCompletion ==
    /\ card = "v1"
    /\ ev.op = "toggleTask"
    /\ Len(ev.writes) = 5
    /\ IsStatusWrite(ev.writes[3]) /\ ev.writes[3].ok
    /\ IsIncrement(ev.writes[4]) /\ ev.writes[4].ok
    /\ IsCreditInsert(ev.writes[5]) /\ ev.writes[5].ok
    /\ dbBalance = ev.preBalance + TimeAllocated(ev.g)

\* ------------------------------------------------------ streak row claims

\* The insert of a fetchStreakData call, if it issued one.
RowInserts == SelectSeq(sev.writes, LAMBDA w : w.table = "user_streaks" /\ w.what = "insert")

\* C24: one user_streaks row per user: fetchStreakData inserts a row, with
\* the default values, exactly when its read found none, so the user never
\* has two rows and has one after every call whose read (and insert, if any)
\* succeeded.
C24_OneStreakRowPerUser ==
    /\ streakRows <= 1
    /\ streakRows = 1 <=> dbStreak # NoRow
    /\ sev.op = "fetchStreakData"
       => /\ RowInserts # <<>> <=> sev.writes[1].ok /\ sev.preDb = NoRow
          /\ (\A i \in DOMAIN sev.writes : sev.writes[i].ok)
             => /\ streakRows = 1
                /\ streak = dbStreak
                /\ sev.preDb = NoRow => dbStreak = DefaultStreakRow
                /\ sev.preDb # NoRow => dbStreak = sev.preDb

\* The first read found no row and the row has been created.
C24_Witness_RowCreatedOnFirstRead ==
    /\ sev.op = "fetchStreakData"
    /\ sev.preDb = NoRow
    /\ RowInserts = <<Write("user_streaks", "insert", TRUE)>>
    /\ streakRows = 1
    /\ streak = DefaultStreakRow

\* longest_streak >= current_streak >= 0, and a dated row has a streak running.
WellFormedStreak(row) ==
    /\ row.longest_streak >= row.current_streak
    /\ row.current_streak >= 0
    /\ row.last_streak_date # NoDate => row.current_streak >= 1

C28_UnreadCountMatchesList ==
    /\ unreadCount = Len(Unread(notifications))
    /\ unreadCount >= 0

\* ---------------------------------------------------- focus timer claims

\* handleSessionEnd has run to its end in the last step.
SessionEndHandled == tev.op = "handleSessionEnd" /\ pending = NoRender

\* C29: each time the countdown of a work session reaches zero exactly one
\* focus_sessions row (session_type work, duration_minutes the configured
\* work duration) is inserted and completedSessions grows by one; when a
\* break ends nothing is inserted or counted.
C29_WorkSessionRecordedOnce ==
    SessionEndHandled
    => IF tev.wasWork
       THEN /\ completedSessions = tev.preCompleted + 1
            /\ dbFocusSessions = IF tev.okInsert
                                 THEN Append(tev.preRows, FocusSession(tev.workDuration))
                                 ELSE tev.preRows
       ELSE /\ completedSessions = tev.preCompleted
            /\ dbFocusSessions = tev.preRows

\* The full length of the session in progress.
FullLength ==
    (IF isWorkSession THEN settings.workDuration
     ELSE nextBreakDuration(completedSessions, settings)) * SecondsPerMinute

\* C30: the timer stops when timeLeft reaches 0 and timeLeft is never
\* negative; a work session is followed by a break and a break by a work
\* session; the break after the k-th completed work session lasts
\* longBreakDuration if k is a multiple of sessionsBeforeLongBreak and
\* breakDuration otherwise; resetTimer restores the full length of the
\* session in progress.
C30_AlternatesAndStops ==
    /\ timeLeft >= 0
    /\ timeLeft = 0 /\ isRunning => pending # NoRender
    /\ tev.op = "handleSessionEnd" /\ pending # NoRender /\ closure = NoRender => ~isRunning
    /\ SessionEndHandled => isWorkSession = ~tev.wasWork /\ timeLeft = FullLength
    /\ tev.op = "resetTimer" => timeLeft = FullLength /\ ~isRunning

\* ------------------------------------------------------ crediting once

\* The increment_balance calls for goal g that succeeded: the balance starts
\* at 0, each call adds TimeAllocated(g), and nothing else writes it.
Credits(g) == dbBalance \div TimeAllocated(g)

CreditTransactions(g) ==
    SelectSeq(dbTransactions, LAMBDA tx : tx.goal_id = g /\ tx.type = "credit")

\* C26: across any sequence of task toggles on one goal, un-ticking and
\* re-ticking after the completion included, increment_balance is invoked at
\* most once for the goal and at most one credit transaction for it exists.
C26_GoalCreditedAtMostOnce ==
    \A g \in Goals : Credits(g) <= 1 /\ Len(CreditTransactions(g)) <= 1

\* ------------------------------------------------------ missing session

\* The mounted page found the session to be null, in its check or in an event.
FoundNull == aev.op \in {"getSession", "onAuthStateChange"} /\ aev.session = NoSession

Delivered == fetchBalance.pc = "done" /\ channel = <<>>

\* C25: for any interleaving of the initial balance fetch and the profile
\* UPDATE notifications, once every in-flight fetch response and notification
\* has been delivered the displayed balance equals the stored balance.
C25_BalanceConverges ==
    Delivered /\ fetchBalance.ok => balanceShown = dbBalance

====
